---- MODULE Spec2Model ----
(***************************************************************************)
(* Model of the MikroTik scraper engine (mikrotik/mikrotik_master.py,      *)
(* class MasterEngine).                                                    *)
(*                                                                         *)
(* Spec       the Download Manager: download_file run by the workers of    *)
(*            the download pool that process_version creates.              *)
(* SpecProbe  the Existence Probe: check_version_exists run by parallel    *)
(*            callers (probe pool workers, process_version).               *)
(* SpecGen    the Version Generator and the Download Target Builder:       *)
(*            generate_all_version_numbers and build_download_urls.        *)
(* SpecEngine one engine's found_versions, counters and persistence files  *)
(*            under process_version, the range scan, scan_rss_for_versions *)
(*            and the two saves, run by a scan thread and a second thread. *)
(* SpecDaemon the headless daemon (mikrotik/mikrotik_headless.py):         *)
(*            start_daemon, _daemon_loop, check_rss, stop_daemon.          *)
(* SpecControl the daemon commands of the command line (main of            *)
(*            mikrotik_headless.py): start, stop and status run by         *)
(*            separate processes that share the PID marker file.           *)
(* SpecLock   the two locks: gui.stats_lock around the counters and the    *)
(*            engine's own lock around found_versions.                     *)
(* SpecFullScan full_scan of the headless controller: the probe pool, the  *)
(*            process_version jobs and their download pools.               *)
(* SpecRestart the polling-loop threads one controller starts and stops.   *)
(* SpecRuns   SpecEngine on a directory an earlier run left, where open()  *)
(*            of the record at startup may raise.                          *)
(* SpecFound  SpecProbe with the insertion into found_versions that        *)
(*            follows a probe in process_version.                          *)
(*                                                                         *)
(* Every MasterEngine the repository constructs is given a gui             *)
(* (mikrotik_master.py:309,427,458, mikrotik_headless.py:61), so the       *)
(* counters of gui.stats exist and "if self.gui" is true.                  *)
(***************************************************************************)
EXTENDS Integers, Sequences, FiniteSets, TLC

(***************************************************************************)
(* Bounds of the model.                                                    *)
(***************************************************************************)
\* largest retry budget (max_retries) an engine is constructed with
MaxRetries == 3
\* longest response body / file, in chunks
MaxLen == 2
\* download_file calls submitted to the pool in one run
MaxCalls == 2
\* check_version_exists calls issued per caller
MaxProbeCalls == 2

\* largest major version a range scan is asked for
MaxMajor == 2
\* engine operations called (and engines constructed) in one run
MaxOps == 2
\* iterations of the daemon polling loop
MaxTicks == 2
\* start_daemon and stop_daemon calls made on one controller
MaxDaemonCalls == 2
\* increment_stat and found_versions.add calls of one worker
MaxRmw == 2
\* polling-loop threads one controller starts
MaxLoops == 2

(***************************************************************************)
(* Sets the inputs are drawn from.                                         *)
(***************************************************************************)
\* download targets (url, version, arch, filename) of one version
Targets == {"t1", "t2"}
\* chunk values a body is made of
Chunk == {"a"}
\* HTTP statuses the remote root answers a GET with
Statuses == {200, 404, 500}
\* version identifiers probed
Versions == {"6.51", "99.99"}
\* threads that call check_version_exists on one engine
Callers == {"p1", "p2"}
\* HTTP statuses the remote root answers a HEAD with
ProbeStatuses == {200, 301, 302, 403, 404, 500}

\* threads of the download pool (download_workers of them)
Workers == {"w1", "w2"}
NoTask == "none"
\* the request raised instead of answering with a status
Exc == 0
Contents == UNION {[1..n -> Chunk] : n \in 0..MaxLen}
\* no file at out_path
NoFile == [exists |-> FALSE, data |-> <<>>]
\* a file at out_path holding `data`
File(data) == [exists |-> TRUE, data |-> data]

\* major and minor numbers given to generate_all_version_numbers
GenMajors == 0..MaxMajor
GenMinors == {0, 1, 98, 99}
\* versions given to build_download_urls: 6.51, 7.16.2, 7.16.2rc1, 3.30.1beta5
SampleVersions ==
  {<<"6", ".", "5", "1">>,
   <<"7", ".", "1", "6", ".", "2">>,
   <<"7", ".", "1", "6", ".", "2", "r", "c", "1">>,
   <<"3", ".", "3", "0", ".", "1", "b", "e", "t", "a", "5">>}

\* the versions of the engine-level model: 7.15.1 and 7.16.2
V7151 == <<"7", ".", "1", "5", ".", "1">>
V7162 == <<"7", ".", "1", "6", ".", "2">>
EngineVersions == {V7151, V7162}
\* the threads that share one engine: the scan thread runs
\* scan_versions_range_and_download (mikrotik_master.py:434-437), the daemon
\* thread the operations of the RSS loop (mikrotik_master.py:459-468)
ScanThread == "scan"
DaemonThread == "daemon"
Threads == {ScanThread, DaemonThread}
\* a feed body, as far as the pattern of line 286 sees it: the version-looking
\* tokens in it, each preceded by "RouterOS " (a match) or not
FeedItems == [routeros : BOOLEAN, token : EngineVersions]
FeedLengths == {0, 1}
FeedBodies ==
  UNION {[1..n -> FeedItems] : n \in FeedLengths} \cup
  {<<[routeros |-> TRUE, token |-> V7162], [routeros |-> TRUE, token |-> V7151],
     [routeros |-> TRUE, token |-> V7151]>>}
\* what the GET of the feed does: it raises, or it answers with a body
FeedResponses ==
  {[ok |-> FALSE, body |-> <<>>]} \cup {[ok |-> TRUE, body |-> body] : body \in FeedBodies}
\* how the download_file call of one target ends: a file of one chunk is
\* fetched, the file is there already, the server says 404, the retries are
\* exhausted, or the call raises (Spec has the steps of a call)
Outcomes == {"downloaded", "skipped", "not_found", "failed", "raised"}
\* the outcomes of the targets of one version, target by target
DownloadBatches ==
  {<<"downloaded", "skipped", "failed">>, <<"raised", "not_found", "downloaded">>}
\* the batches of the versions a daemon tick processes
DaemonBatches == {<<"raised", "not_found", "downloaded">>}

\* interval_minutes a daemon is started with (the command line passes 15,
\* which makes more sleep increments of the same kind)
Intervals == {1}

VARIABLES
  max_retries,           \* self.max_retries
  files,                 \* out_path of each target: NoFile or its content
  stats,                 \* gui.stats
  worker,                \* the download_file call each pool thread runs
  call,                  \* per target: the download_file call on it
  version_exists_cache,  \* self.version_exists_cache
  probe,                 \* per caller: its check_version_exists call
  firstReturned,         \* per version: what the first returned probe returned
  gen,                   \* a generate_all_version_numbers call: arguments and result
  target,                \* a build_download_urls call: argument and result
  found_versions,        \* self.found_versions
  versions_file,         \* output_dir/found_versions.json
  stats_file,            \* output_dir/download_stats.json
  thread,                \* per thread: the engine operation it is in
  stop_requested,        \* gui.stop_requested
  ncalls,                \* engine operations called so far
  engine,                \* serial number of the engine object in use
  held,                  \* what found_versions.json held when that engine was constructed
  daemon,                \* the HeadlessController's daemon: flags, PID marker, loop counters
  marker,                \* output_dir/.daemon.pid as the command-line processes share it
  proc,                  \* per command-line process: its command and its controller
  locks,                 \* who holds engine.lock and gui.stats_lock
  rmw,                   \* per worker: the increment_stat or found_versions.add it is in
  events,                \* what the workers were asked to count and to insert
  full,                  \* per version: its probe and process_version job in full_scan
  loops                  \* the polling-loop threads one controller has started

dlVars == <<max_retries, files, stats, worker, call>>
probeVars == <<version_exists_cache, probe, firstReturned>>
genVars == <<gen, target>>
\* the variables of the subsystems other than the two pools
engVars == <<found_versions, versions_file, stats_file, thread, stop_requested, ncalls, engine, held>>
\* the variables of the two pools that the engine-level model leaves alone
poolVars == <<max_retries, files, worker, call, probe, firstReturned>>
\* the variables of the subsystems other than the two pools
\* the variables of the command-line processes, and of the two locks
ctlVars == <<marker, proc>>
lockVars == <<locks, rmw, events>>
sideVars == <<ctlVars, lockVars, full, loops>>
restVars == <<genVars, engVars, daemon, sideVars>>
vars == <<max_retries, files, stats, worker, call, version_exists_cache, probe, firstReturned,
          gen, target, found_versions, versions_file, stats_file, thread, stop_requested,
          ncalls, engine, held, daemon, marker, proc, locks, rmw, events, full,
          loops>>

(***************************************************************************)
(* Stats                                                                   *)
(***************************************************************************)
ZeroStats ==
  [versions_tested |-> 0, versions_found |-> 0, files_downloaded |-> 0,
   files_skipped |-> 0, files_failed |-> 0, bytes_downloaded |-> 0]

StatKeys == DOMAIN ZeroStats

\* a plausible slip: the counter is set, not added to
increment_stat_set(s, key, amount) == [s EXCEPT ![key] = amount]

\* increment_stat: gui.stats[key] = gui.stats.get(key, 0) + amount, under stats_lock
increment_stat(s, key, amount) == [s EXCEPT ![key] = @ + amount]


(***************************************************************************)
(* download_file                                                           *)
(***************************************************************************)
\* a plausible slip: the size test is off by one
FilePresent_strict(f) == f.exists /\ Len(f.data) > 1

\* out_path.exists() and out_path.stat().st_size > 0
FilePresent(f) == f.exists /\ Len(f.data) > 0

\* a plausible slip: 404 is treated like any other bad status
IsNotFound_never(status) == FALSE

\* resp.status_code == 404
IsNotFound(status) == status = 404

\* resp.raise_for_status() raises for 4xx and 5xx
RaisesForStatus(status) == status >= 400 /\ status < 600

\* a plausible slip: one attempt too many
ShouldRetry_inclusive(retry_count, budget) == retry_count <= budget

\* retry_count < self.max_retries
ShouldRetry(retry_count, budget) == retry_count < budget

\* a plausible slip: linear instead of exponential backoff
Backoff_linear(retry_count) == retry_count + 1

\* backoff = 2 ** retry_count
Backoff(retry_count) == 2 ^ retry_count

\* a plausible slip: the partial file is left behind
Unlink_keep(f) == f

\* if out_path.exists(): out_path.unlink()
Unlink(f) == NoFile

\* the answers one GET can get: the request raises, or a status arrives; a
\* status that passes raise_for_status carries a body; mkdir or open may
\* raise (opened is false), else the chunks `written` reach the file before
\* the stream ends (complete) or breaks.
Responses ==
  {[status |-> Exc, opened |-> FALSE, written |-> <<>>, complete |-> FALSE]}
  \cup {[status |-> s, opened |-> FALSE, written |-> <<>>, complete |-> FALSE] :
          s \in {s \in Statuses : IsNotFound(s) \/ RaisesForStatus(s)}}
  \cup {[status |-> s, opened |-> FALSE, written |-> <<>>, complete |-> FALSE] :
          s \in {s \in Statuses : ~RaisesForStatus(s)}}
  \cup {[status |-> s, opened |-> TRUE, written |-> d, complete |-> c] :
          s \in {s \in Statuses : ~RaisesForStatus(s)}, d \in Contents,
          c \in BOOLEAN}

IdleCall ==
  [pc |-> "idle", retry_count |-> 0, ret |-> FALSE, result |-> "none",
   fetches |-> 0, lastStatus |-> Exc, waits |-> <<>>, wrote |-> 0, ncalls |-> 0]

RECURSIVE SumCalls(_)
SumCalls(S) == IF S = {} THEN 0
               ELSE LET t == CHOOSE x \in S : TRUE IN call[t].ncalls + SumCalls(S \ {t})

\* process_version: ex.submit(self.download_file, url, version, arch, fname),
\* one call per target of build_download_urls. The calls in flight are on
\* distinct targets: build_download_urls emits each (arch, filename) once and
\* process_version leaves its pool only when every call has returned.
SubmitDownload(t) ==
  /\ call[t].pc \in {"idle", "done"}
  /\ SumCalls(Targets) < MaxCalls
  /\ call' = [call EXCEPT ![t] =
                [IdleCall EXCEPT !.pc = "queued", !.ncalls = call[t].ncalls + 1]]
  /\ UNCHANGED <<max_retries, files, stats, worker>>

\* a thread of ThreadPoolExecutor(max_workers=download_workers) takes the call
StartDownload(w, t) ==
  /\ worker[w] = NoTask
  /\ call[t].pc = "queued"
  /\ worker' = [worker EXCEPT ![w] = t]
  /\ call' = [call EXCEPT ![t].pc = "attempt"]
  /\ UNCHANGED <<max_retries, files, stats>>

\* the worker returns from download_file
ReleaseWorker(t) == [w \in Workers |-> IF worker[w] = t THEN NoTask ELSE worker[w]]

\* time.sleep(backoff) runs in the thread that owns the call
WorkerAfterFailure(t, retry) == IF retry THEN worker ELSE ReleaseWorker(t)

\* the state one body of download_file leaves: c the call on t, newFile the
\* file at out_path, newStats the counters, newWorker the pool threads
Finish(t, c, newFile, newStats, newWorker) ==
  /\ files' = [files EXCEPT ![t] = newFile]
  /\ stats' = newStats
  /\ worker' = newWorker
  /\ call' = [call EXCEPT ![t] = c]
  /\ UNCHANGED max_retries

\* lines 161-164: the file is there, nothing is fetched
SkipExisting(t) ==
  Finish(t, [call[t] EXCEPT !.pc = "done", !.ret = TRUE, !.result = "skipped"],
         files[t], increment_stat(stats, "files_skipped", 1), ReleaseWorker(t))

\* lines 183-198: the except branch, with `f` the file the attempt left
OnException(t, c, f) ==
  IF ShouldRetry(c.retry_count, max_retries)
  THEN Finish(t, [c EXCEPT !.pc = "sleep",
                           !.waits = Append(@, Backoff(c.retry_count))],
              f, stats, WorkerAfterFailure(t, TRUE))
  ELSE Finish(t, [c EXCEPT !.pc = "done", !.ret = FALSE, !.result = "exhausted"],
              IF f.exists THEN Unlink(f) ELSE f,
              increment_stat(stats, "files_failed", 1), WorkerAfterFailure(t, FALSE))

\* lines 166-182: one GET and what follows from its answer r
Fetch(t, r) ==
  LET c == [call[t] EXCEPT !.fetches = @ + 1, !.lastStatus = r.status, !.wrote = 0] IN
  IF r.status = Exc THEN OnException(t, c, files[t])
  ELSE IF IsNotFound(r.status) THEN
    Finish(t, [c EXCEPT !.pc = "done", !.ret = FALSE, !.result = "notfound"],
           files[t], stats, ReleaseWorker(t))
  ELSE IF RaisesForStatus(r.status) THEN OnException(t, c, files[t])
  ELSE IF ~r.opened THEN OnException(t, c, files[t])
  ELSE
    \* open(out_path, 'wb') truncates, then the chunks are appended
    \* downloaded += len(chunk)
    LET downloaded == Len(r.written)
        cw == [c EXCEPT !.wrote = downloaded]
    IN IF r.complete
       THEN Finish(t, [cw EXCEPT !.pc = "done", !.ret = TRUE, !.result = "downloaded"],
                   File(r.written),
                   increment_stat(increment_stat(stats, "files_downloaded", 1),
                                  "bytes_downloaded", downloaded),
                   ReleaseWorker(t))
       ELSE OnException(t, cw, File(r.written))

\* one execution of the body of download_file (lines 159-198) up to its
\* return or its time.sleep
DownloadAttempt(t) ==
  /\ call[t].pc = "attempt"
  /\ IF FilePresent(files[t])
     THEN SkipExisting(t)
     ELSE \E r \in Responses : Fetch(t, r)

\* line 187-188: the sleep ends and download_file calls itself with retry_count + 1
RetryAfterBackoff(t) ==
  /\ call[t].pc = "sleep"
  /\ call' = [call EXCEPT ![t].pc = "attempt", ![t].retry_count = @ + 1]
  /\ UNCHANGED <<max_retries, files, stats, worker>>

(***************************************************************************)
(* check_version_exists                                                    *)
(***************************************************************************)
\* a plausible slip: 403 (listing denied) is not taken as existence
ExistsStatus_no403(status) == status \in {200, 301, 302}

\* resp.status_code in (200, 301, 302, 403)
ExistsStatus(status) == status \in {200, 301, 302, 403}

\* resp.status_code == 200, for the CHANGELOG check
FallbackExists(status) == status = 200

\* a plausible slip: a failed probe is reported as found
ExistsOnException_true == TRUE

\* except Exception: the value recorded and returned is False
ExistsOnException == FALSE

\* version in self.version_exists_cache
CacheHit(cache, v) == v \in DOMAIN cache

\* self.version_exists_cache[version] = exists
CachePut(cache, v, exists) ==
  [x \in DOMAIN cache \cup {v} |-> IF x = v THEN exists ELSE cache[x]]

IdleProbe ==
  [pc |-> "idle", v |-> "6.51", exists |-> FALSE, ret |-> FALSE,
   heads |-> 0, first |-> Exc, second |-> Exc,
   hadPrior |-> FALSE, prior |-> FALSE, ncalls |-> 0]

\* lines 120-124: the call starts and looks the version up in the cache
ProbeStart(p, v) ==
  /\ probe[p].pc \in {"idle", "done"}
  /\ probe[p].ncalls < MaxProbeCalls
  /\ LET c == [IdleProbe EXCEPT !.v = v, !.ncalls = probe[p].ncalls + 1,
                                !.hadPrior = v \in DOMAIN firstReturned,
                                !.prior = IF v \in DOMAIN firstReturned
                                          THEN firstReturned[v] ELSE FALSE]
     IN IF CacheHit(version_exists_cache, v)
        THEN /\ probe' = [probe EXCEPT ![p] =
                            [c EXCEPT !.pc = "done", !.ret = version_exists_cache[v]]]
             /\ firstReturned' =
                  IF v \in DOMAIN firstReturned THEN firstReturned
                  ELSE CachePut(firstReturned, v, version_exists_cache[v])
        ELSE /\ probe' = [probe EXCEPT ![p] = [c EXCEPT !.pc = "head1"]]
             /\ UNCHANGED firstReturned
  /\ UNCHANGED version_exists_cache

\* lines 126-128: session.head(test_url) is answered with status r, or raises
ProbeHead1(p, r) ==
  /\ probe[p].pc = "head1"
  /\ LET c == [probe[p] EXCEPT !.heads = @ + 1, !.first = r] IN
     probe' = [probe EXCEPT ![p] =
       IF r = Exc THEN [c EXCEPT !.pc = "store", !.exists = ExistsOnException]
       ELSE IF ExistsStatus(r) THEN [c EXCEPT !.pc = "store", !.exists = TRUE]
       ELSE [c EXCEPT !.pc = "head2"]]
  /\ UNCHANGED <<version_exists_cache, firstReturned>>

\* lines 130-132: session.head(changelog) is answered with status r, or raises
ProbeHead2(p, r) ==
  /\ probe[p].pc = "head2"
  /\ LET c == [probe[p] EXCEPT !.heads = @ + 1, !.second = r] IN
     probe' = [probe EXCEPT ![p] =
       IF r = Exc THEN [c EXCEPT !.pc = "store", !.exists = ExistsOnException]
       ELSE [c EXCEPT !.pc = "store", !.exists = FallbackExists(r)]]
  /\ UNCHANGED <<version_exists_cache, firstReturned>>

\* lines 133-134 and 136-137: the value is recorded and returned
ProbeStore(p) ==
  /\ probe[p].pc = "store"
  /\ version_exists_cache' =
       CachePut(version_exists_cache, probe[p].v, probe[p].exists)
  /\ probe' = [probe EXCEPT ![p].pc = "done", ![p].ret = probe[p].exists]
  /\ firstReturned' =
       IF probe[p].v \in DOMAIN firstReturned THEN firstReturned
       ELSE CachePut(firstReturned, probe[p].v, probe[p].exists)

(***************************************************************************)
(* Strings are sequences of one-character strings: "7.16" is               *)
(* <<"7", ".", "1", "6">>, so that formatting, concatenation and substring *)
(* tests are computed, and two strings are equal exactly when their        *)
(* characters are.                                                         *)
(***************************************************************************)
DigitChar == <<"0", "1", "2", "3", "4", "5", "6", "7", "8", "9">>

\* str(n) of an f-string field, n >= 0
RECURSIVE Str(_)
Str(n) == IF n < 10 THEN <<DigitChar[n + 1]>>
          ELSE Str(n \div 10) \o <<DigitChar[(n % 10) + 1]>>

\* sub in s, for strings
IsSubstring(sub, s) ==
  \E i \in 0..(Len(s) - Len(sub)) : SubSeq(s, i + 1, i + Len(sub)) = sub

\* the elements of a list
Range(seq) == {seq[i] : i \in 1..Len(seq)}

(***************************************************************************)
(* generate_all_version_numbers                                            *)
(***************************************************************************)
\* versions.append in loop order (lines 105, 111, 113, 115, 117): the lists the
\* iterations of a loop append, one after the other
RECURSIVE Flatten(_)
Flatten(lists) ==
  IF Len(lists) = 0 THEN <<>>
  ELSE IF Len(lists) = 1 THEN lists[1]
  ELSE LET half == Len(lists) \div 2 IN
       Flatten(SubSeq(lists, 1, half)) \o Flatten(SubSeq(lists, half + 1, Len(lists)))

\* the last minor of a major that is not the end major (line 108)
LastMinor == 99
\* range(1, 21): the patches of a base
LastPatch == 20
\* range(1, 6): the rc and the beta indices of a patch
LastPre == 5

\* a plausible slip: the beta loop is missing
PatchEntries_noBeta(base, patch) ==
  LET p == base \o <<".">> \o Str(patch) IN
  <<p>> \o [rc \in 1..LastPre |-> p \o <<"r", "c">> \o Str(rc)]

\* lines 113-117: the patch, its rc1..rc5, then its beta1..beta5
PatchEntries(base, patch) ==
  LET p == base \o <<".">> \o Str(patch) IN
  <<p>> \o [rc \in 1..LastPre |-> p \o <<"r", "c">> \o Str(rc)]
        \o [beta \in 1..LastPre |-> p \o <<"b", "e", "t", "a">> \o Str(beta)]

\* line 112: for patch in range(patch, 21)
PatchLoop(base, patch) ==
  Flatten([i \in 1..(LastPatch - patch + 1) |-> PatchEntries(base, patch + i - 1)])

\* lines 110-117: the base, then its patches
MinorEntries(major, minor) ==
  LET base == Str(major) \o <<".">> \o Str(minor) IN <<base>> \o PatchLoop(base, 1)

\* line 109: for minor in range(minor, max_minor + 1)
MinorLoop(major, minor, max_minor) ==
  Flatten([i \in 1..(max_minor - minor + 1) |-> MinorEntries(major, minor + i - 1)])

\* a plausible slip: the start minor is applied to every major
MinMinor_every(major, start_major, start_minor) == start_minor

\* line 107: min_minor = start_minor if major == start_major else 0
MinMinor(major, start_major, start_minor) == IF major = start_major THEN start_minor ELSE 0

\* line 108: max_minor = end_minor if major == end_major else 99
MaxMinor(major, end_major, end_minor) == IF major = end_major THEN end_minor ELSE LastMinor

\* line 106: for major in range(major, end_major + 1)
MajorLoop(major, start_major, start_minor, end_major, end_minor) ==
  Flatten([i \in 1..(end_major - major + 1) |->
             MinorLoop(major + i - 1, MinMinor(major + i - 1, start_major, start_minor),
                       MaxMinor(major + i - 1, end_major, end_minor))])

generate_all_version_numbers(start_major, start_minor, end_major, end_minor) ==
  MajorLoop(start_major, start_major, start_minor, end_major, end_minor)

(***************************************************************************)
(* build_download_urls                                                     *)
(***************************************************************************)
\* line 30: BASE_CDN_URL = "https://download.mikrotik.com/routeros"
BASE_CDN_URL == <<"h", "t", "t", "p", "s", ":", "/", "/", "d", "o", "w", "n", "l", "o", "a", "d", ".", "m", "i", "k", "r", "o", "t", "i", "k", ".", "c", "o", "m", "/", "r", "o", "u", "t", "e", "r", "o", "s">>

ARCHITECTURES == <<
  <<"a", "r", "m">>,
  <<"a", "r", "m", "6", "4">>,
  <<"m", "i", "p", "s", "b", "e">>,
  <<"m", "m", "i", "p", "s">>,
  <<"p", "p", "c">>,
  <<"s", "m", "i", "p", "s">>,
  <<"t", "i", "l", "e">>,
  <<"x", "8", "6">> >>

FILE_PATTERNS == <<
  \* routeros-{arch}-{version}.npk
  <<"r", "o", "u", "t", "e", "r", "o", "s", "-", "{", "a", "r", "c", "h", "}", "-", "{", "v", "e", "r", "s", "i", "o", "n", "}", ".", "n", "p", "k">>,
  \* all_packages-{arch}-{version}.zip
  <<"a", "l", "l", "_", "p", "a", "c", "k", "a", "g", "e", "s", "-", "{", "a", "r", "c", "h", "}", "-", "{", "v", "e", "r", "s", "i", "o", "n", "}", ".", "z", "i", "p">>,
  \* routeros-{arch}-{version}.zip
  <<"r", "o", "u", "t", "e", "r", "o", "s", "-", "{", "a", "r", "c", "h", "}", "-", "{", "v", "e", "r", "s", "i", "o", "n", "}", ".", "z", "i", "p">>,
  \* mikrotik-{version}.iso
  <<"m", "i", "k", "r", "o", "t", "i", "k", "-", "{", "v", "e", "r", "s", "i", "o", "n", "}", ".", "i", "s", "o">>,
  \* cd-{version}.iso
  <<"c", "d", "-", "{", "v", "e", "r", "s", "i", "o", "n", "}", ".", "i", "s", "o">>,
  \* chr-{version}.ova
  <<"c", "h", "r", "-", "{", "v", "e", "r", "s", "i", "o", "n", "}", ".", "o", "v", "a">>,
  \* chr-{version}.vdi
  <<"c", "h", "r", "-", "{", "v", "e", "r", "s", "i", "o", "n", "}", ".", "v", "d", "i">>,
  \* chr-{version}.vmdk
  <<"c", "h", "r", "-", "{", "v", "e", "r", "s", "i", "o", "n", "}", ".", "v", "m", "d", "k">>,
  \* chr-{version}.vhdx
  <<"c", "h", "r", "-", "{", "v", "e", "r", "s", "i", "o", "n", "}", ".", "v", "h", "d", "x">>,
  \* chr-{version}.img
  <<"c", "h", "r", "-", "{", "v", "e", "r", "s", "i", "o", "n", "}", ".", "i", "m", "g">>,
  \* chr-{version}.zip
  <<"c", "h", "r", "-", "{", "v", "e", "r", "s", "i", "o", "n", "}", ".", "z", "i", "p">>,
  \* routeros-{arch}-{version}.upgrade
  <<"r", "o", "u", "t", "e", "r", "o", "s", "-", "{", "a", "r", "c", "h", "}", "-", "{", "v", "e", "r", "s", "i", "o", "n", "}", ".", "u", "p", "g", "r", "a", "d", "e">>,
  \* routeros-{version}.pdf
  <<"r", "o", "u", "t", "e", "r", "o", "s", "-", "{", "v", "e", "r", "s", "i", "o", "n", "}", ".", "p", "d", "f">>,
  \* CHANGELOG
  <<"C", "H", "A", "N", "G", "E", "L", "O", "G">>,
  \* README
  <<"R", "E", "A", "D", "M", "E">> >>

ArchField == <<"{", "a", "r", "c", "h", "}">>
VersionField == <<"{", "v", "e", "r", "s", "i", "o", "n", "}">>

\* str.format(arch=..., version=...): each {arch} and {version} is replaced
RECURSIVE Format(_, _, _)
Format(pattern, arch, version) ==
  IF pattern = <<>> THEN <<>>
  ELSE IF Len(pattern) >= Len(ArchField) /\ SubSeq(pattern, 1, Len(ArchField)) = ArchField
  THEN arch \o Format(SubSeq(pattern, Len(ArchField) + 1, Len(pattern)), arch, version)
  ELSE IF Len(pattern) >= Len(VersionField)
          /\ SubSeq(pattern, 1, Len(VersionField)) = VersionField
  THEN version \o Format(SubSeq(pattern, Len(VersionField) + 1, Len(pattern)), arch, version)
  ELSE <<Head(pattern)>> \o Format(Tail(pattern), arch, version)

X86 == <<"x", "8", "6">>
\* any(x in pattern for x in ['chr-', 'mikrotik-', 'cd-'])
SingleFilePrefixes == {<<"c", "h", "r", "-">>, <<"m", "i", "k", "r", "o", "t", "i", "k", "-">>, <<"c", "d", "-">>}

\* a plausible slip: the templates without {arch} are emitted for every architecture
SkipsPattern_qualifiedOnly(arch, pattern) ==
  arch /= X86 /\ \E x \in SingleFilePrefixes : IsSubstring(x, pattern)

\* lines 143-147: the two `continue` tests
SkipsPattern(arch, pattern) ==
  \/ ~IsSubstring(ArchField, pattern) /\ arch /= X86
  \/ arch /= X86 /\ \E x \in SingleFilePrefixes : IsSubstring(x, pattern)

\* lines 149-155: the (url, arch, filename) of one architecture and template
UrlEntry(version, arch, pattern) ==
  LET filename == Format(pattern, arch, version) IN
  [url |-> BASE_CDN_URL \o <<"/">> \o version \o <<"/">> \o filename,
   arch |-> arch, filename |-> filename]

\* line 142: for pattern in FILE_PATTERNS[j..]
RECURSIVE PatternLoop(_, _, _)
PatternLoop(version, arch, j) ==
  IF j > Len(FILE_PATTERNS) THEN <<>>
  ELSE (IF SkipsPattern(arch, FILE_PATTERNS[j]) THEN <<>>
        ELSE <<UrlEntry(version, arch, FILE_PATTERNS[j])>>)
       \o PatternLoop(version, arch, j + 1)

\* line 141: for arch in ARCHITECTURES[i..]
RECURSIVE ArchLoop(_, _)
ArchLoop(version, i) ==
  IF i > Len(ARCHITECTURES) THEN <<>>
  ELSE PatternLoop(version, ARCHITECTURES[i], 1) \o ArchLoop(version, i + 1)

build_download_urls(version) == ArchLoop(version, 1)

\* no generate_all_version_numbers call
NoGen ==
  [pc |-> "off", start_major |-> 0, start_minor |-> 0, end_major |-> 0, end_minor |-> 0,
   versions |-> <<>>]
\* no build_download_urls call
NoTarget == [pc |-> "off", version |-> <<>>, urls |-> <<>>]

\* the call returns its list
Generate ==
  /\ gen.pc = "call"
  /\ gen' = [gen EXCEPT !.pc = "done",
                         !.versions = generate_all_version_numbers(
                            gen.start_major, gen.start_minor, gen.end_major, gen.end_minor)]
  /\ UNCHANGED target

\* the call returns its list
BuildDownloadUrls ==
  /\ target.pc = "call"
  /\ target' = [target EXCEPT !.pc = "done", !.urls = build_download_urls(target.version)]
  /\ UNCHANGED gen

(***************************************************************************)
(* The engine as a whole: found_versions, the two persistence files, and   *)
(* the threads that call its operations.  A probe is one step here (its    *)
(* HEAD requests are the subject of SpecProbe) and the downloads of a      *)
(* version are summarised by what they add to the counters (the calls are  *)
(* the subject of Spec).                                                   *)
(***************************************************************************)
\* the characters of a version identifier, in code-point order
Alphabet ==
  <<".", "0", "1", "2", "3", "4", "5", "6", "7", "8", "9", "a", "b", "c", "e", "r", "t">>
Ord(c) == CHOOSE i \in 1..Len(Alphabet) : Alphabet[i] = c

\* a < b, for strings
RECURSIVE StrLess(_, _)
StrLess(a, b) ==
  IF b = <<>> THEN FALSE
  ELSE IF a = <<>> THEN TRUE
  ELSE IF Head(a) = Head(b) THEN StrLess(Tail(a), Tail(b))
  ELSE Ord(Head(a)) < Ord(Head(b))

\* the orders a set can be listed in
Listings(S) ==
  {seq \in [1..Cardinality(S) -> S] : \A i, j \in 1..Cardinality(S) : i /= j => seq[i] /= seq[j]}

\* a plausible slip: sorted(..., reverse=True)
sorted_descending(S) ==
  CHOOSE seq \in Listings(S) : \A i, j \in 1..Cardinality(S) : i < j => StrLess(seq[j], seq[i])

\* sorted(S)
sorted(S) ==
  CHOOSE seq \in Listings(S) : \A i, j \in 1..Cardinality(S) : i < j => StrLess(seq[i], seq[j])

\* gui.stats as MasterGUI.__init__ sets it (a key the headless wrapper lacks reads as 0)
EngineStats == [k \in StatKeys \cup {"current_version"} |->
                  IF k = "current_version" THEN <<>> ELSE 0]

\* update_stat: gui.stats[key] = value, under stats_lock
update_stat(s, key, value) == [s EXCEPT ![key] = value]

\* how many targets of the batch ended this way
Count(d, outcome) == Cardinality({i \in 1..Len(d) : d[i] = outcome})

\* a plausible slip: the counters are set to what the batch counted
AddDownloads_assign(s, d) ==
  [s EXCEPT !.files_downloaded = Count(d, "downloaded"),
            !.bytes_downloaded = Count(d, "downloaded"),
            !.files_skipped = Count(d, "skipped"),
            !.files_failed = Count(d, "failed")]

\* what the download_file calls of one version add to the counters (lines
\* 163, 179-180, 191)
AddDownloads(s, d) ==
  [s EXCEPT !.files_downloaded = @ + Count(d, "downloaded"),
            !.bytes_downloaded = @ + Count(d, "downloaded"),
            !.files_skipped = @ + Count(d, "skipped"),
            !.files_failed = @ + Count(d, "failed")]

\* a plausible slip: fut.result() is not inside a try
Escapes_raised(outcome) == outcome = "raised"

\* lines 217-221: the exception of a future does not leave process_version
Escapes(outcome) == FALSE

\* line 216: every target is submitted before any result is looked at, so the
\* download_file call of every target runs
Attempted(d) == Len(d)

\* found_versions.json: absent, emptied by open(..., 'w'), or holding a record;
\* `from` is the found_versions the record was made of
NoVersionsFile == [exists |-> FALSE, whole |-> FALSE, versions |-> <<>>, from |-> {}]
\* download_stats.json
NoStatsFile ==
  [exists |-> FALSE, whole |-> FALSE, versions |-> <<>>, from |-> {}, stats |-> EngineStats]

\* open(path, 'w'): the file exists and is empty
Truncate(file) == [file EXCEPT !.exists = TRUE, !.whole = FALSE, !.versions = <<>>, !.from = {}]

\* a plausible slip: only the first version found is written
Snapshot_first(found, s) ==
  [exists |-> TRUE, whole |-> TRUE, versions |-> SubSeq(sorted(found), 1, 1), from |-> found,
   stats |-> s]

\* lines 228 and 237: the record json.dump serialises
Snapshot(found, s) ==
  [exists |-> TRUE, whole |-> TRUE, versions |-> sorted(found), from |-> found, stats |-> s]

\* the record as found_versions.json or download_stats.json holds it
AsFile(which, rec) ==
  IF which = "stats" THEN rec
  ELSE [exists |-> rec.exists, whole |-> rec.whole, versions |-> rec.versions, from |-> rec.from]

\* the buffered record is written from offset 0 when the handle is closed: a
\* longer content that another handle wrote meanwhile keeps its tail
Overwrite(file, rec) ==
  IF Len(file.versions) > Len(rec.versions) THEN [file EXCEPT !.whole = FALSE]
  ELSE rec

\* a plausible slip: the record is read under another key than it was written
_load_persisted_wrongKey(file) == {}

\* _load_persisted: the versions of the file, nothing when it is absent or
\* json.load raises
_load_persisted(file) ==
  IF file.exists /\ file.whole THEN Range(file.versions) ELSE {}

\* a plausible slip: a version is taken to exist without asking
ProbeResult_trusting(cache, v, answer) == TRUE

\* a plausible slip: only a positive result is served from the cache
ProbeResult_retrying(cache, v, answer) ==
  IF CacheHit(cache, v) /\ cache[v] THEN TRUE ELSE answer

\* check_version_exists as one step: the cached value, else the probe's answer
ProbeResult(cache, v, answer) == IF CacheHit(cache, v) THEN cache[v] ELSE answer
ProbeCache(cache, v, answer) == IF CacheHit(cache, v) THEN cache ELSE CachePut(cache, v, answer)

\* re.findall: the version of every "RouterOS <version>" of the body, in order
FindAll(body) ==
  LET Mentions == SelectSeq(body, LAMBDA item : item.routeros)
  IN [i \in 1..Len(Mentions) |-> Mentions[i].token]

\* a plausible slip: the matches are filtered as a list, not as a set
NewVersions_all(body, found) == {SelectSeq(FindAll(body), LAMBDA v : v \notin found)}

\* lines 286-287: vers = set(matches); new = [v for v in vers if v not in
\* found_versions], in the order the set happens to be iterated in
NewVersions(body, found) == Listings({v \in Range(FindAll(body)) : v \notin found})

\* the lists scan_rss_for_versions can return: [] when the request raises
scan_rss_for_versions(r, found) == IF r.ok THEN NewVersions(r.body, found) ELSE {<<>>}

\* a plausible slip: the set is assigned, not added to
AddFound_replace(found, new) == new

\* found_versions.add / found_versions.update
AddFound(found, new) == found \cup new

\* a thread that is in no engine operation
IdleThread ==
  [pc |-> "idle", which |-> "none", after |-> "idle", remaining |-> {}, existing |-> <<>>,
   todo |-> <<>>, delta |-> <<>>, buf |-> NoStatsFile, log |-> "none", attempted |-> 0]

\* the file a save writes
FileOf(which) == IF which = "stats" THEN stats_file ELSE versions_file
SetFile(which, new) ==
  IF which = "stats" THEN stats_file' = new /\ UNCHANGED versions_file
  ELSE versions_file' = new /\ UNCHANGED stats_file

\* lines 200-223: the probe, and for a version that exists the set, the
\* counters and the downloads
process_version(v, answer, d) ==
  /\ version_exists_cache' = ProbeCache(version_exists_cache, v, answer)
  /\ IF ProbeResult(version_exists_cache, v, answer)
     THEN /\ found_versions' = AddFound(found_versions, {v})
          /\ stats' = AddDownloads(
                        update_stat(increment_stat(stats, "versions_found", 1),
                                    "current_version", v), d)
     ELSE UNCHANGED <<found_versions, stats>>

\* the batch that process_version runs: none when the probe is negative
Downloads(v, answer, d) == IF ProbeResult(version_exists_cache, v, answer) THEN d ELSE <<>>
\* process_version raises
Raises(d) == \E i \in 1..Len(d) : Escapes(d[i])

\* a thread calls process_version
CallProcessVersion(th, v, answer, d) ==
  /\ thread[th].pc = "idle"
  /\ ncalls < MaxOps
  /\ process_version(v, answer, d)
  /\ thread' = [thread EXCEPT ![th].delta = <<>>,
                              ![th].attempted = Attempted(Downloads(v, answer, d)),
                              ![th].log = IF Raises(Downloads(v, answer, d))
                                          THEN "fatal" ELSE "none"]
  /\ ncalls' = ncalls + 1
  /\ UNCHANGED <<versions_file, stats_file, stop_requested, engine, held>>

\* a thread calls scan_rss_for_versions; r is what the feed request does
CallScanRss(th, r) ==
  /\ thread[th].pc = "idle"
  /\ ncalls < MaxOps
  /\ \E new \in scan_rss_for_versions(r, found_versions) :
       thread' = [thread EXCEPT ![th].delta = new, ![th].log = "none"]
  /\ ncalls' = ncalls + 1
  /\ UNCHANGED <<found_versions, version_exists_cache, stats, versions_file, stats_file,
                 stop_requested, engine, held>>

\* save_found_versions or save_stats begins
BeginSave(th, which, after) ==
  thread' = [thread EXCEPT ![th].pc = "open", ![th].which = which, ![th].after = after,
                           ![th].delta = <<>>, ![th].log = "none"]

\* a thread calls save_found_versions or save_stats
CallSave(th, which) ==
  /\ thread[th].pc = "idle"
  /\ ncalls < MaxOps
  /\ BeginSave(th, which, "idle")
  /\ ncalls' = ncalls + 1
  /\ UNCHANGED <<found_versions, version_exists_cache, stats, versions_file, stats_file,
                 stop_requested, engine, held>>

\* a plausible slip: the write is not inside the try
SaveFailed_raises(th) ==
  thread' = [thread EXCEPT ![th].pc = "raised", ![th].log = "failed"]

\* lines 230-231 and 239-240: the exception is logged and the call returns
SaveFailed(th) ==
  thread' = [thread EXCEPT ![th].pc = thread[th].after, ![th].log = "failed",
                           ![th].buf = NoStatsFile]

\* lines 227 and 236: open(file, 'w') empties the file, or raises
SaveOpen(th, ok) ==
  /\ thread[th].pc = "open"
  /\ IF ok
     THEN /\ SetFile(thread[th].which, Truncate(FileOf(thread[th].which)))
          /\ thread' = [thread EXCEPT ![th].pc = "dump"]
     ELSE /\ SaveFailed(th)
          /\ UNCHANGED <<versions_file, stats_file>>
  /\ UNCHANGED <<found_versions, version_exists_cache, stats, stop_requested, ncalls, engine, held>>

\* lines 228 and 237: the record is made of found_versions (and gui.stats) and
\* serialised into the handle's buffer, or that raises
SaveDump(th, ok) ==
  /\ thread[th].pc = "dump"
  /\ IF ok
     THEN thread' = [thread EXCEPT ![th].pc = "close",
                                   ![th].buf = AsFile(thread[th].which,
                                                     Snapshot(found_versions, stats))]
     ELSE SaveFailed(th)
  /\ UNCHANGED <<found_versions, version_exists_cache, stats, versions_file, stats_file,
                 stop_requested, ncalls, engine, held>>

\* the end of the with block: the buffer reaches the file, or that raises
SaveClose(th, ok) ==
  /\ thread[th].pc = "close"
  /\ IF ok
     THEN /\ SetFile(thread[th].which,
                     Overwrite(FileOf(thread[th].which), thread[th].buf))
          /\ thread' = [thread EXCEPT ![th].pc = thread[th].after, ![th].log = "saved",
                                      ![th].buf = NoStatsFile]
     ELSE /\ SaveFailed(th)
          /\ UNCHANGED <<versions_file, stats_file>>
  /\ UNCHANGED <<found_versions, version_exists_cache, stats, stop_requested, ncalls, engine, held>>

\* the scan thread is started on scan_versions_range_and_download, with
\* stop_requested cleared (line 429); cands are the candidates of the range
CallScan(th, cands) ==
  /\ thread[th].pc = "idle"
  /\ ncalls < MaxOps
  /\ thread' = [thread EXCEPT ![th].pc = "probing", ![th].remaining = cands,
                              ![th].existing = <<>>, ![th].log = "none"]
  /\ stop_requested' = FALSE
  /\ ncalls' = ncalls + 1
  /\ UNCHANGED <<found_versions, version_exists_cache, stats, versions_file, stats_file,
                 engine, held>>

\* lines 256-264: one probe of the pool completes
ScanProbe(th, v, answer) ==
  /\ thread[th].pc = "probing"
  /\ v \in thread[th].remaining
  /\ version_exists_cache' = ProbeCache(version_exists_cache, v, answer)
  /\ stats' = increment_stat(stats, "versions_tested", 1)
  /\ thread' = [thread EXCEPT
       ![th].remaining = @ \ {v},
       ![th].existing = IF ProbeResult(version_exists_cache, v, answer)
                        THEN Append(@, v) ELSE @]
  /\ UNCHANGED <<found_versions, versions_file, stats_file, stop_requested, ncalls, engine, held>>

\* lines 268-270: the versions found join found_versions and the set is saved
ScanUpdate(th) ==
  /\ thread[th].pc = "probing"
  /\ thread[th].remaining = {}
  /\ found_versions' = AddFound(found_versions, Range(thread[th].existing))
  /\ thread' = [thread EXCEPT ![th].pc = "open", ![th].which = "versions",
                              ![th].after = "process",
                              ![th].todo = sorted(Range(thread[th].existing)),
                              ![th].log = "none"]
  /\ UNCHANGED <<version_exists_cache, stats, versions_file, stats_file, stop_requested,
                 ncalls, engine, held>>

\* lines 273-278: the next version found is processed
ScanProcess(th, answer, d) ==
  /\ thread[th].pc = "process"
  /\ thread[th].todo /= <<>>
  /\ ~stop_requested
  /\ process_version(Head(thread[th].todo), answer, d)
  /\ LET ran == Downloads(Head(thread[th].todo), answer, d) IN
       thread' = IF Raises(ran)
                 THEN [thread EXCEPT ![th].pc = "idle", ![th].todo = <<>>,
                                     ![th].existing = <<>>,
                                     ![th].attempted = Attempted(ran),
                                     ![th].log = "fatal"]
                 ELSE [thread EXCEPT ![th].todo = Tail(@),
                                     ![th].attempted = Attempted(ran)]
  /\ UNCHANGED <<versions_file, stats_file, stop_requested, ncalls, engine, held>>

\* lines 273-276 and 280: the loop ends or is stopped, and the stats are saved
ScanFinish(th) ==
  /\ thread[th].pc = "process"
  /\ thread[th].todo = <<>> \/ stop_requested
  /\ thread' = [thread EXCEPT ![th].pc = "open", ![th].which = "stats",
                              ![th].after = "idle", ![th].todo = <<>>,
                              ![th].existing = <<>>, ![th].log = "none"]
  /\ UNCHANGED <<found_versions, version_exists_cache, stats, versions_file, stats_file,
                 stop_requested, ncalls, engine, held>>

\* MasterGUI.request_stop; the Stop button is enabled while a scan runs
RequestStop ==
  /\ ~stop_requested
  /\ thread[ScanThread].pc /= "idle"
  /\ stop_requested' = TRUE
  /\ UNCHANGED <<found_versions, version_exists_cache, stats, versions_file, stats_file,
                 thread, ncalls, engine, held>>

\* a new MasterEngine on the same output directory, when no thread is in an
\* operation: __init__ and _load_persisted.  readable is whether open() of
\* the record succeeds; when it raises, the except clause leaves the set as
\* __init__ made it, empty
NewEngine(readable) ==
  /\ \A th \in Threads : thread[th].pc = "idle"
  /\ ncalls < MaxOps
  /\ found_versions' = IF readable THEN _load_persisted(versions_file) ELSE {}
  /\ held' = _load_persisted(versions_file)
  /\ version_exists_cache' = <<>>
  /\ stop_requested' = FALSE
  /\ thread' = [th \in Threads |-> IdleThread]
  /\ engine' = engine + 1
  /\ ncalls' = ncalls + 1
  /\ UNCHANGED <<stats, versions_file, stats_file>>

(***************************************************************************)
(* The headless controller's daemon (mikrotik_headless.py): start_daemon,  *)
(* the polling loop _daemon_loop with check_rss inlined, stop_daemon.  The *)
(* loop thread is thread[DaemonThread].                                    *)
(***************************************************************************)
\* seconds one sleep increment lasts (sleep_chunk)
SleepChunk == 5
\* range(sleep_interval // sleep_chunk)
SleepChunks(interval_minutes) == (interval_minutes * 60) \div SleepChunk

\* a controller as __init__ leaves it: not running, no PID marker
\* (ticks counts the iterations of the loop, slept the sleep increments of the
\* iteration, failed tells whether the last feed check failed; calls counts the
\* start_daemon and stop_daemon calls, op and returned are the last of them and
\* what it returned, spawned counts the loop threads started, and stop_pc,
\* stop_slept, stop_ticks record where the loop was when stop_daemon set the
\* stop event)
NoDaemon ==
  [running |-> FALSE, stop_event |-> FALSE, pid_file |-> FALSE, interval |-> 0,
   ticks |-> 0, slept |-> 0, failed |-> FALSE,
   calls |-> 0, op |-> "none", returned |-> "none", spawned |-> 0,
   stop_pc |-> "none", stop_slept |-> 0, stop_ticks |-> 0]

\* a plausible slip: the running flag is not consulted
StartRefused_never(d) == FALSE

\* line 125: if self.daemon_running
StartRefused(d) == d.running

\* start_daemon: refused on a running controller; otherwise the PID marker is
\* written (or that fails and is logged), the flags are set and a new loop
\* thread starts
StartDaemon(interval_minutes, wrote) ==
  /\ daemon.calls < MaxDaemonCalls
  /\ IF StartRefused(daemon)
     THEN /\ daemon' = [daemon EXCEPT !.calls = @ + 1, !.op = "start", !.returned = "False"]
          /\ UNCHANGED thread
     ELSE /\ daemon' = [daemon EXCEPT !.running = TRUE, !.stop_event = FALSE,
                                      !.pid_file = wrote \/ daemon.pid_file,
                                      !.interval = interval_minutes,
                                      !.calls = @ + 1, !.op = "start", !.returned = "True",
                                      !.spawned = @ + 1, !.stop_pc = "none",
                                      !.stop_slept = 0, !.stop_ticks = 0]
          /\ thread' = [thread EXCEPT ![DaemonThread] = [IdleThread EXCEPT !.pc = "while"]]
  /\ UNCHANGED <<found_versions, version_exists_cache, stats, versions_file, stats_file,
                 stop_requested, ncalls, engine, held>>

\* a plausible slip: the running flag is not consulted
StopRefused_never(d) == FALSE

\* line 165: if not self.daemon_running
StopRefused(d) == ~d.running

\* stop_daemon: refused on a controller that is not running; otherwise the
\* flags are set, the loop thread is joined for 5 seconds at most (it may
\* still be in its iteration when the call goes on), the PID marker is removed
StopDaemon ==
  /\ daemon.calls < MaxDaemonCalls
  /\ IF StopRefused(daemon)
     THEN daemon' = [daemon EXCEPT !.calls = @ + 1, !.op = "stop", !.returned = "False"]
     ELSE daemon' = [daemon EXCEPT !.running = FALSE, !.stop_event = TRUE,
                                   !.pid_file = FALSE,
                                   !.calls = @ + 1, !.op = "stop", !.returned = "True",
                                   !.stop_pc = thread[DaemonThread].pc,
                                   !.stop_slept = daemon.slept,
                                   !.stop_ticks = daemon.ticks]
  /\ UNCHANGED <<found_versions, version_exists_cache, stats, versions_file, stats_file,
                 thread, stop_requested, ncalls, engine, held>>

\* line 149: while self.daemon_running
LoopTest ==
  /\ thread[DaemonThread].pc = "while"
  /\ IF daemon.running
     THEN /\ daemon.ticks < MaxTicks
          /\ thread' = [thread EXCEPT ![DaemonThread].pc = "rss", ![DaemonThread].delta = <<>>,
                                      ![DaemonThread].log = "none"]
          /\ daemon' = [daemon EXCEPT !.ticks = @ + 1, !.slept = 0]
     ELSE /\ thread' = [thread EXCEPT ![DaemonThread].pc = "exit"]
          /\ UNCHANGED daemon
  /\ UNCHANGED <<found_versions, version_exists_cache, stats, versions_file, stats_file,
                 stop_requested, ncalls, engine, held>>

\* a plausible slip: a failed feed request ends the loop
AfterFeed_fatal(r, new) ==
  IF ~r.ok THEN "exit" ELSE IF new /= <<>> THEN "process" ELSE "sleep"

\* check_rss, lines 108 and 116: the delta is worked through, or there is
\* nothing new and the loop goes to sleep
AfterFeed(r, new) == IF new /= <<>> THEN "process" ELSE "sleep"

\* check_rss, line 107: new_versions = self.engine.scan_rss_for_versions()
LoopRss(r) ==
  /\ thread[DaemonThread].pc = "rss"
  /\ \E new \in scan_rss_for_versions(r, found_versions) :
       thread' = [thread EXCEPT ![DaemonThread].pc = AfterFeed(r, new),
                                ![DaemonThread].delta = new,
                                ![DaemonThread].todo = new]
  /\ daemon' = [daemon EXCEPT !.failed = ~r.ok]
  /\ UNCHANGED <<found_versions, version_exists_cache, stats, versions_file, stats_file,
                 stop_requested, ncalls, engine, held>>

\* check_rss, lines 110-112: the next version of the delta is processed
LoopProcess(answer, d) ==
  /\ thread[DaemonThread].pc = "process"
  /\ thread[DaemonThread].todo /= <<>>
  /\ process_version(Head(thread[DaemonThread].todo), answer, d)
  /\ LET ran == Downloads(Head(thread[DaemonThread].todo), answer, d) IN
       thread' = IF Raises(ran)
                 THEN [thread EXCEPT ![DaemonThread].pc = "sleep",
                                     ![DaemonThread].todo = <<>>,
                                     ![DaemonThread].attempted = Attempted(ran),
                                     ![DaemonThread].log = "fatal"]
                 ELSE [thread EXCEPT ![DaemonThread].todo = Tail(@),
                                     ![DaemonThread].attempted = Attempted(ran)]
  /\ UNCHANGED <<versions_file, stats_file, stop_requested, ncalls, engine, held, daemon>>

\* check_rss, line 113: save_found_versions
LoopSaveVersions ==
  /\ thread[DaemonThread].pc = "process"
  /\ thread[DaemonThread].todo = <<>>
  /\ thread' = [thread EXCEPT ![DaemonThread].pc = "open", ![DaemonThread].which = "versions",
                              ![DaemonThread].after = "save_stats",
                              ![DaemonThread].log = "none"]
  /\ UNCHANGED <<found_versions, version_exists_cache, stats, versions_file, stats_file,
                 stop_requested, ncalls, engine, held, daemon>>

\* a plausible slip: the save_stats call is missing
LoopSaveStats_skip ==
  /\ thread[DaemonThread].pc = "save_stats"
  /\ thread' = [thread EXCEPT ![DaemonThread].pc = "sleep"]
  /\ UNCHANGED <<found_versions, version_exists_cache, stats, versions_file, stats_file,
                 stop_requested, ncalls, engine, held, daemon>>

\* check_rss, line 114: save_stats, after which the loop goes to sleep
LoopSaveStats ==
  /\ thread[DaemonThread].pc = "save_stats"
  /\ thread' = [thread EXCEPT ![DaemonThread].pc = "open", ![DaemonThread].which = "stats",
                              ![DaemonThread].after = "sleep", ![DaemonThread].log = "none"]
  /\ UNCHANGED <<found_versions, version_exists_cache, stats, versions_file, stats_file,
                 stop_requested, ncalls, engine, held, daemon>>

\* a plausible slip: the stop event is not looked at between the increments
SleepOver_noEvent(d) == d.slept = SleepChunks(d.interval)

\* lines 158-160: the range is exhausted, or the stop event is set
SleepOver(d) == d.slept = SleepChunks(d.interval) \/ d.stop_event

\* lines 158-161: the stop event is not set, time.sleep(sleep_chunk) begins
LoopSleep ==
  /\ thread[DaemonThread].pc = "sleep"
  /\ ~SleepOver(daemon)
  /\ thread' = [thread EXCEPT ![DaemonThread].pc = "sleeping"]
  /\ UNCHANGED <<found_versions, version_exists_cache, stats, versions_file, stats_file,
                 stop_requested, ncalls, engine, held, daemon>>

\* line 161: time.sleep(sleep_chunk) returns
LoopSlept ==
  /\ thread[DaemonThread].pc = "sleeping"
  /\ thread' = [thread EXCEPT ![DaemonThread].pc = "sleep"]
  /\ daemon' = [daemon EXCEPT !.slept = @ + 1]
  /\ UNCHANGED <<found_versions, version_exists_cache, stats, versions_file, stats_file,
                 stop_requested, ncalls, engine, held>>

\* lines 158-160: the interval is over, or the stop event is set
LoopWake ==
  /\ thread[DaemonThread].pc = "sleep"
  /\ SleepOver(daemon)
  /\ thread' = [thread EXCEPT ![DaemonThread].pc = "while"]
  /\ UNCHANGED <<found_versions, version_exists_cache, stats, versions_file, stats_file,
                 stop_requested, ncalls, engine, held, daemon>>

(***************************************************************************)
(* The command-line processes (mikrotik_headless.py, main): every           *)
(* invocation is a process of its own with a controller of its own; what    *)
(* the processes of one output directory share is the PID marker.  The      *)
(* polling loop of a process is followed through its phases only (its feed  *)
(* check is the subject of SpecDaemon).                                     *)
(***************************************************************************)
\* the processes, by process id
Pids == {1, 2, 3}
\* --daemon start | stop | status
Commands == {"start", "stop", "status"}

\* .daemon.pid: absent, or holding the process id written (pid 0: a content
\* that int() does not parse)
NoMarker == [exists |-> FALSE, pid |-> 0]
MarkerOf(p) == [exists |-> TRUE, pid |-> p]

\* a process that was not started yet
\* (state: "new", "main" once the controller is constructed, "wait" in the
\* loop of lines 396-397, "done" when main has returned, "exited", "killed")
\* (saw is the marker a status command found)
NoProc ==
  [state |-> "new", cmd |-> "none", running |-> FALSE, stop_event |-> FALSE,
   loop |-> "none", returned |-> "none", saw |-> NoMarker]

\* lines 130-134: the process id is written, or open raises, or the write does
\* after open has emptied the file
MarkerWrites == {"written", "open_raised", "write_raised"}
WriteMarker(m, p, wrote) ==
  IF wrote = "written" THEN MarkerOf(p)
  ELSE IF wrote = "write_raised" THEN [exists |-> TRUE, pid |-> 0]
  ELSE m

\* the process exists for os.kill(pid, 0)
Alive(p) == p \in Pids /\ proc[p].state \in {"main", "wait", "done"}

\* lines 372-388: the command line is parsed and the controller constructed
Invoke(p, cmd) ==
  /\ proc[p].state = "new"
  /\ proc' = [proc EXCEPT ![p] = [NoProc EXCEPT !.state = "main", !.cmd = cmd]]
  /\ UNCHANGED marker

\* lines 392-393 and start_daemon: the controller is new, so the call is not
\* refused; the marker is written whatever it holds, the loop thread starts,
\* and main waits (lines 396-397)
MainStart(p, wrote) ==
  /\ proc[p].state = "main"
  /\ proc[p].cmd = "start"
  /\ ~StartRefused(proc[p])
  /\ marker' = WriteMarker(marker, p, wrote)
  /\ proc' = [proc EXCEPT ![p].state = "wait", ![p].running = TRUE,
                          ![p].stop_event = FALSE, ![p].loop = "while",
                          ![p].returned = "True"]

\* lines 398-400 and stop_daemon: Ctrl-C in the process that runs the daemon
KeyboardInterrupt(p) ==
  /\ proc[p].state = "wait"
  /\ ~StopRefused(proc[p])
  /\ marker' = NoMarker
  /\ proc' = [proc EXCEPT ![p].state = "done", ![p].running = FALSE,
                          ![p].stop_event = TRUE, ![p].returned = "True"]

\* lines 401-402 and stop_daemon: the controller is new, its daemon_running
\* is False, so the call is refused (lines 165-167)
MainStop(p) ==
  /\ proc[p].state = "main"
  /\ proc[p].cmd = "stop"
  /\ IF StopRefused(proc[p])
     THEN /\ proc' = [proc EXCEPT ![p].state = "done", ![p].returned = "False"]
          /\ UNCHANGED marker
     ELSE /\ proc' = [proc EXCEPT ![p].state = "done", ![p].running = FALSE,
                                  ![p].stop_event = TRUE, ![p].returned = "True"]
          /\ marker' = NoMarker

\* a plausible slip: a stale marker is reported and left
get_daemon_status_keeps(m, alive) ==
  IF ~m.exists \/ m.pid = 0 \/ ~alive
  THEN [returned |-> "False", marker |-> m]
  ELSE [returned |-> "True", marker |-> m]

\* get_daemon_status: what it returns and what it leaves of the marker; alive
\* tells whether os.kill(pid, 0) succeeds
get_daemon_status(m, alive) ==
  IF ~m.exists THEN [returned |-> "False", marker |-> m]
  ELSE IF m.pid = 0 THEN [returned |-> "False", marker |-> m]
  ELSE IF alive THEN [returned |-> "True", marker |-> m]
  ELSE [returned |-> "False", marker |-> NoMarker]

\* lines 403-404
MainStatus(p) ==
  /\ proc[p].state = "main"
  /\ proc[p].cmd = "status"
  /\ LET r == get_daemon_status(marker, Alive(marker.pid)) IN
       /\ marker' = r.marker
       /\ proc' = [proc EXCEPT ![p].state = "done", ![p].returned = r.returned,
                               ![p].saw = marker]

\* _daemon_loop of a process, phase by phase: the test of line 149, the feed
\* check, the sleep that ends when the interval is over or the stop event set
CliLoop(p) ==
  /\ Alive(p)
  /\ proc[p].loop \in {"while", "tick", "sleep"}
  /\ proc' = [proc EXCEPT ![p].loop =
                IF proc[p].loop = "while" THEN (IF proc[p].running THEN "tick" ELSE "exit")
                ELSE IF proc[p].loop = "tick" THEN "sleep"
                ELSE "while"]
  /\ UNCHANGED marker

\* main has returned and no loop thread is left: the process ends
ProcessEnd(p) ==
  /\ proc[p].state = "done"
  /\ proc[p].loop \in {"none", "exit"}
  /\ proc' = [proc EXCEPT ![p].state = "exited"]
  /\ UNCHANGED marker

\* the process that runs a daemon dies uncleanly (SIGKILL, power loss)
Killed(p) ==
  /\ proc[p].state = "wait"
  /\ proc' = [proc EXCEPT ![p].state = "killed", ![p].loop = "none"]
  /\ UNCHANGED marker

(***************************************************************************)
(* The two locks: engine.lock around found_versions.add / update, and       *)
(* gui.stats_lock around the read-modify-write of increment_stat.           *)
(***************************************************************************)
\* the threads that count and insert: pool workers, the scan thread
LockWorkers == {"k1", "k2"}
\* the counters they increment, by how much
LockKeys == {"versions_found", "files_downloaded"}
Amounts == {1}

Free == "free"
\* threading.Lock() of lines 69 and 303 (headless line 80)
FreeLocks == [lock |-> Free, stats_lock |-> Free]
\* a worker in neither operation
IdleRmw == [pc |-> "idle", key |-> "none", amount |-> 0, tmp |-> 0, v |-> <<>>, done |-> 0]
NoEvents == [counted |-> [k \in LockKeys |-> 0], inserted |-> {}]

\* a plausible slip: the with statement is missing
CanAcquire_always(holder) == TRUE

\* with lock: the lock is taken when nobody holds it
CanAcquire(holder) == holder = Free

\* increment_stat(key, amount) is called
CallIncrement(w, key, amount) ==
  /\ rmw[w].pc = "idle"
  /\ rmw[w].done < MaxRmw
  /\ rmw' = [rmw EXCEPT ![w].pc = "want_stats", ![w].key = key, ![w].amount = amount,
                        ![w].done = @ + 1]
  /\ events' = [events EXCEPT !.counted[key] = @ + amount]
  /\ UNCHANGED <<locks, stats, found_versions>>

\* line 96: with self.gui.stats_lock
AcquireStats(w) ==
  /\ rmw[w].pc = "want_stats"
  /\ CanAcquire(locks.stats_lock)
  /\ locks' = [locks EXCEPT !.stats_lock = w]
  /\ rmw' = [rmw EXCEPT ![w].pc = "read"]
  /\ UNCHANGED <<events, stats, found_versions>>

\* line 97, right-hand side: self.gui.stats.get(key, 0) + amount
ReadStat(w) ==
  /\ rmw[w].pc = "read"
  /\ rmw' = [rmw EXCEPT ![w].pc = "write", ![w].tmp = stats[rmw[w].key] + rmw[w].amount]
  /\ UNCHANGED <<locks, events, stats, found_versions>>

\* line 97, the assignment, and the end of the with block
WriteStat(w) ==
  /\ rmw[w].pc = "write"
  /\ stats' = update_stat(stats, rmw[w].key, rmw[w].tmp)
  /\ locks' = [locks EXCEPT !.stats_lock = IF @ = w THEN Free ELSE @]
  /\ rmw' = [rmw EXCEPT ![w].pc = "idle", ![w].tmp = 0, ![w].key = "none", ![w].amount = 0]
  /\ UNCHANGED <<events, found_versions>>

\* process_version reaches line 208 for version v
CallAdd(w, v) ==
  /\ rmw[w].pc = "idle"
  /\ rmw[w].done < MaxRmw
  /\ rmw' = [rmw EXCEPT ![w].pc = "want_lock", ![w].v = v, ![w].done = @ + 1]
  /\ events' = [events EXCEPT !.inserted = @ \cup {v}]
  /\ UNCHANGED <<locks, stats, found_versions>>

\* line 208: with self.lock
AcquireLock(w) ==
  /\ rmw[w].pc = "want_lock"
  /\ CanAcquire(locks.lock)
  /\ locks' = [locks EXCEPT !.lock = w]
  /\ rmw' = [rmw EXCEPT ![w].pc = "add"]
  /\ UNCHANGED <<events, stats, found_versions>>

\* line 209: self.found_versions.add(version), and the end of the with block
AddVersion(w) ==
  /\ rmw[w].pc = "add"
  /\ found_versions' = AddFound(found_versions, {rmw[w].v})
  /\ locks' = [locks EXCEPT !.lock = IF @ = w THEN Free ELSE @]
  /\ rmw' = [rmw EXCEPT ![w].pc = "idle", ![w].v = <<>>]
  /\ UNCHANGED <<events, stats>>

(***************************************************************************)
(* full_scan of the headless controller (mikrotik_headless.py:264-305):    *)
(* one executor of self.workers threads runs the probes and, for every     *)
(* version found, a process_version call, which opens a download pool of   *)
(* its own.  The main thread is thread[ScanThread].                        *)
(***************************************************************************)
\* self.download_workers, which is also self.workers of the controller
\* (mikrotik_headless.py:63)
download_workers == Cardinality(Workers)
\* the download targets of one version
FullTargets == Targets \cup {"t3"}
\* how a download of full_scan ends
FullOutcomes == {"downloaded", "raised"}
\* a version full_scan has no task for
NoJob == [pc |-> "none", waiting |-> {}, running |-> {}]

\* the download_file calls of the engine that a pool thread is executing
InFlight(f) ==
  Cardinality({<<v, t>> \in EngineVersions \X FullTargets : t \in f[v].running})

\* lines 289-290: the probes of all candidates are submitted (main calls
\* full_scan once in a process, line 419)
FullScan(cands) ==
  /\ thread[ScanThread].pc = "idle"
  /\ \A v \in EngineVersions : full[v].pc = "none"
  /\ ncalls < MaxOps
  /\ full' = [v \in EngineVersions |-> IF v \in cands THEN [NoJob EXCEPT !.pc = "probe"]
                                       ELSE NoJob]
  /\ thread' = [thread EXCEPT ![ScanThread].pc = "full", ![ScanThread].log = "none"]
  /\ ncalls' = ncalls + 1
  /\ UNCHANGED <<found_versions, version_exists_cache, stats, versions_file, stats_file,
                 stop_requested, engine, held>>

\* lines 292-301: a probe completes; for a version that exists
\* executor.submit(self.engine.process_version, v)
FullProbe(v, answer) ==
  /\ full[v].pc = "probe"
  /\ version_exists_cache' = ProbeCache(version_exists_cache, v, answer)
  /\ full' = [full EXCEPT ![v].pc = IF ProbeResult(version_exists_cache, v, answer)
                                    THEN "queued" ELSE "absent"]
  /\ UNCHANGED <<found_versions, stats, versions_file, stats_file, thread, stop_requested,
                 ncalls, engine, held>>

\* a thread of the executor (max_workers=self.workers) takes the process_version
\* call, once no probe is left in the queue before it: mikrotik_master.py
\* lines 201-216, up to the submission of every target to a new
\* ThreadPoolExecutor(max_workers=self.download_workers)
FullProcess(v) ==
  /\ full[v].pc = "queued"
  /\ \A u \in EngineVersions : full[u].pc /= "probe"
  /\ Cardinality({u \in EngineVersions : full[u].pc = "running"}) < download_workers
  /\ process_version(v, TRUE, <<>>)
  /\ full' = [full EXCEPT ![v] = [pc |-> "running", waiting |-> FullTargets, running |-> {}]]
  /\ UNCHANGED <<versions_file, stats_file, thread, stop_requested, ncalls, engine, held>>

\* a thread of the pool of this process_version call takes a download_file call
FullStartDownload(v, t) ==
  /\ full[v].pc = "running"
  /\ t \in full[v].waiting
  /\ Cardinality(full[v].running) < download_workers
  /\ full' = [full EXCEPT ![v].waiting = @ \ {t}, ![v].running = @ \cup {t}]
  /\ UNCHANGED <<found_versions, version_exists_cache, stats, versions_file, stats_file,
                 thread, stop_requested, ncalls, engine, held>>

\* the download_file call returns or raises
FullEndDownload(v, t, outcome) ==
  /\ t \in full[v].running
  /\ stats' = AddDownloads(stats, <<outcome>>)
  /\ full' = [full EXCEPT ![v].running = @ \ {t}]
  /\ UNCHANGED <<found_versions, version_exists_cache, versions_file, stats_file, thread,
                 stop_requested, ncalls, engine, held>>

\* mikrotik_master.py lines 217-223: every future is done, process_version returns
FullReturn(v) ==
  /\ full[v].pc = "running"
  /\ full[v].waiting = {} /\ full[v].running = {}
  /\ full' = [full EXCEPT ![v].pc = "done"]
  /\ UNCHANGED <<found_versions, version_exists_cache, stats, versions_file, stats_file,
                 thread, stop_requested, ncalls, engine, held>>

\* lines 302-305: the executor has shut down; save_found_versions, then save_stats
FullSave(which) ==
  /\ thread[ScanThread].pc = (IF which = "versions" THEN "full" ELSE "full_stats")
  /\ \A v \in EngineVersions : full[v].pc \in {"none", "absent", "done"}
  /\ BeginSave(ScanThread, which, IF which = "versions" THEN "full_stats" ELSE "idle")
  /\ UNCHANGED <<found_versions, version_exists_cache, stats, versions_file, stats_file,
                 stop_requested, ncalls, engine, held, full>>

(***************************************************************************)
(* One controller that is started, stopped and started again                *)
(* (mikrotik_headless.py:123-184).  Every start_daemon that is not refused  *)
(* makes a new thread on _daemon_loop; the threads are followed through     *)
(* their phases only (the tick itself is the subject of SpecDaemon).        *)
(***************************************************************************)
\* a thread as threading.Thread(target=self._daemon_loop).start() makes it
\* (stopped: a stop_daemon was called while it ran; ticks: its iterations)
NewLoop == [phase |-> "while", stopped |-> FALSE, ticks |-> 0]

\* the thread is executing _daemon_loop
Executing(l) == l.phase /= "exit"

\* start_daemon (lines 125-145)
RestartStart(interval_minutes, wrote) ==
  /\ Len(loops) < MaxLoops
  /\ IF StartRefused(daemon)
     THEN /\ daemon' = [daemon EXCEPT !.op = "start", !.returned = "False"]
          /\ UNCHANGED loops
     ELSE /\ daemon' = [daemon EXCEPT !.running = TRUE, !.stop_event = FALSE,
                                      !.pid_file = wrote \/ daemon.pid_file,
                                      !.interval = interval_minutes,
                                      !.op = "start", !.returned = "True",
                                      !.spawned = @ + 1]
          /\ loops' = Append(loops, NewLoop)

\* stop_daemon (lines 165-184), up to its return
RestartStop ==
  /\ IF StopRefused(daemon)
     THEN /\ daemon' = [daemon EXCEPT !.op = "stop", !.returned = "False"]
          /\ UNCHANGED loops
     ELSE /\ daemon' = [daemon EXCEPT !.running = FALSE, !.stop_event = TRUE,
                                      !.pid_file = FALSE,
                                      !.op = "stop", !.returned = "True"]
          /\ loops' = [k \in 1..Len(loops) |->
                         IF Executing(loops[k]) THEN [loops[k] EXCEPT !.stopped = TRUE]
                         ELSE loops[k]]

\* line 174: self.daemon_thread.join(timeout=5) has returned: the thread has
\* ended, or it is in a feed check or download that outlasts the timeout
JoinReturned ==
  IF daemon.op /= "stop" \/ daemon.returned = "False" \/ loops = <<>> THEN TRUE
  ELSE loops[Len(loops)].phase \in {"exit", "tick"}

\* _daemon_loop (lines 149-161) of thread k: the test of daemon_running, the
\* tick, and the sleep, which ends when the interval is over or the stop
\* event is set
RestartLoop(k) ==
  /\ k \in 1..Len(loops)
  /\ Executing(loops[k])
  /\ loops[k].phase = "while" /\ daemon.running => loops[k].ticks < MaxTicks
  /\ loops' = [loops EXCEPT ![k] =
       IF loops[k].phase = "while"
       THEN (IF daemon.running THEN [@ EXCEPT !.phase = "tick", !.ticks = @ + 1]
             ELSE [@ EXCEPT !.phase = "exit"])
       ELSE IF loops[k].phase = "tick" THEN [@ EXCEPT !.phase = "sleep"]
       ELSE [@ EXCEPT !.phase = "while"]]
  /\ UNCHANGED daemon

(***************************************************************************)
(* Specifications                                                          *)
(***************************************************************************)
\* no command-line process yet, no PID marker; no worker at a lock
InitSideIdle ==
  /\ marker = NoMarker
  /\ proc = [p \in Pids |-> NoProc]
  /\ locks = FreeLocks
  /\ rmw = [w \in LockWorkers |-> IdleRmw]
  /\ events = NoEvents
  /\ full = [v \in EngineVersions |-> NoJob]
  /\ loops = <<>>

\* a fresh engine on an empty output directory, no thread in an operation
InitEngineIdle ==
  /\ found_versions = {}
  /\ versions_file = NoVersionsFile
  /\ stats_file = NoStatsFile
  /\ thread = [th \in Threads |-> IdleThread]
  /\ stop_requested = FALSE
  /\ ncalls = 0
  /\ engine = 1
  /\ held = {}
  /\ daemon = NoDaemon
  /\ InitSideIdle

\* neither pure function is being called
InitGenIdle ==
  /\ gen = NoGen
  /\ target = NoTarget

InitRest == InitGenIdle /\ InitEngineIdle

InitDownload ==
  /\ max_retries \in 0..MaxRetries
  /\ files \in [Targets -> {NoFile} \cup {File(d) : d \in Contents}]
  /\ stats = ZeroStats
  /\ worker = [w \in Workers |-> NoTask]
  /\ call = [t \in Targets |-> IdleCall]

\* __init__: version_exists_cache = {}
InitProbe ==
  /\ version_exists_cache = <<>>
  /\ probe = [p \in Callers |-> IdleProbe]
  /\ firstReturned = <<>>

Init == InitDownload /\ InitProbe /\ InitRest

Next ==
  \/ \E t \in Targets : SubmitDownload(t) /\ UNCHANGED <<probeVars, restVars>>
  \/ \E w \in Workers, t \in Targets : StartDownload(w, t) /\ UNCHANGED <<probeVars, restVars>>
  \/ \E t \in Targets : DownloadAttempt(t) /\ UNCHANGED <<probeVars, restVars>>
  \/ \E t \in Targets : RetryAfterBackoff(t) /\ UNCHANGED <<probeVars, restVars>>

Spec == Init /\ [][Next]_vars

\* an engine that is probing: no download is running
InitProbing ==
  /\ InitProbe
  /\ max_retries = 3
  /\ files = [t \in Targets |-> NoFile]
  /\ stats = ZeroStats
  /\ worker = [w \in Workers |-> NoTask]
  /\ call = [t \in Targets |-> IdleCall]
  /\ InitRest

NextProbe ==
  \/ \E p \in Callers, v \in Versions : ProbeStart(p, v) /\ UNCHANGED <<dlVars, restVars>>
  \/ \E p \in Callers, r \in ProbeStatuses \cup {Exc} : ProbeHead1(p, r) /\ UNCHANGED <<dlVars, restVars>>
  \/ \E p \in Callers, r \in ProbeStatuses \cup {Exc} : ProbeHead2(p, r) /\ UNCHANGED <<dlVars, restVars>>
  \/ \E p \in Callers : ProbeStore(p) /\ UNCHANGED <<dlVars, restVars>>

SpecProbe == InitProbing /\ [][NextProbe]_vars

\* lines 201-209 of process_version: the caller whose check_version_exists
\* returned true adds its version to found_versions, under self.lock
ProcessAdd(p) ==
  /\ probe[p].pc = "done"
  /\ probe[p].ret
  /\ found_versions' = AddFound(found_versions, {probe[p].v})
  /\ UNCHANGED <<dlVars, probeVars, genVars, versions_file, stats_file, thread,
                 stop_requested, ncalls, engine, held, daemon, sideVars>>

\* the threads of one engine in process_version: the probes, and the
\* insertions that follow them
InitFound == InitProbing

NextFound ==
  \/ NextProbe
  \/ \E p \in Callers : ProcessAdd(p)

SpecFound == InitFound /\ [][NextFound]_vars

\* no pool is running
InitPoolsIdle ==
  /\ InitProbe
  /\ max_retries = 3
  /\ files = [t \in Targets |-> NoFile]
  /\ stats = ZeroStats
  /\ worker = [w \in Workers |-> NoTask]
  /\ call = [t \in Targets |-> IdleCall]

\* one call of one of the two pure functions, on any arguments
InitGen ==
  /\ InitPoolsIdle
  /\ InitEngineIdle
  /\ \/ /\ gen \in [pc : {"call"}, start_major : GenMajors, start_minor : GenMinors,
                     end_major : GenMajors, end_minor : GenMinors, versions : {<<>>}]
        /\ target = NoTarget
     \/ /\ gen = NoGen
        /\ target \in [pc : {"call"}, version : SampleVersions, urls : {<<>>}]

NextGen ==
  \/ Generate /\ UNCHANGED <<dlVars, probeVars, engVars, daemon, sideVars>>
  \/ BuildDownloadUrls /\ UNCHANGED <<dlVars, probeVars, engVars, daemon, sideVars>>

SpecGen == InitGen /\ [][NextGen]_vars

\* an engine constructed on an empty output directory
InitEngine ==
  /\ max_retries = 3
  /\ files = [t \in Targets |-> NoFile]
  /\ worker = [w \in Workers |-> NoTask]
  /\ call = [t \in Targets |-> IdleCall]
  /\ probe = [p \in Callers |-> IdleProbe]
  /\ firstReturned = <<>>
  /\ InitGenIdle
  /\ versions_file = NoVersionsFile
  /\ stats_file = NoStatsFile
  /\ found_versions = _load_persisted(versions_file)
  /\ version_exists_cache = <<>>
  /\ stats = EngineStats
  /\ thread = [th \in Threads |-> IdleThread]
  /\ stop_requested = FALSE
  /\ ncalls = 0
  /\ engine = 1
  /\ held = {}
  /\ daemon = NoDaemon
  /\ InitSideIdle

NextEngine ==
  \/ \E v \in EngineVersions, answer \in BOOLEAN, d \in DownloadBatches :
       CallProcessVersion(DaemonThread, v, answer, d) /\ UNCHANGED <<poolVars, genVars, sideVars, daemon>>
  \/ \E r \in FeedResponses : CallScanRss(DaemonThread, r) /\ UNCHANGED <<poolVars, genVars, sideVars, daemon>>
  \/ \E which \in {"versions", "stats"} :
       CallSave(DaemonThread, which) /\ UNCHANGED <<poolVars, genVars, sideVars, daemon>>
  \/ \E th \in Threads, ok \in BOOLEAN : SaveOpen(th, ok) /\ UNCHANGED <<poolVars, genVars, sideVars, daemon>>
  \/ \E th \in Threads, ok \in BOOLEAN : SaveDump(th, ok) /\ UNCHANGED <<poolVars, genVars, sideVars, daemon>>
  \/ \E th \in Threads, ok \in BOOLEAN : SaveClose(th, ok) /\ UNCHANGED <<poolVars, genVars, sideVars, daemon>>
  \/ \E cands \in {EngineVersions} :
       CallScan(ScanThread, cands) /\ UNCHANGED <<poolVars, genVars, sideVars, daemon>>
  \/ \E v \in EngineVersions, answer \in BOOLEAN :
       ScanProbe(ScanThread, v, answer) /\ UNCHANGED <<poolVars, genVars, sideVars, daemon>>
  \/ ScanUpdate(ScanThread) /\ UNCHANGED <<poolVars, genVars, sideVars, daemon>>
  \/ \E answer \in BOOLEAN, d \in DownloadBatches :
       ScanProcess(ScanThread, answer, d) /\ UNCHANGED <<poolVars, genVars, sideVars, daemon>>
  \/ ScanFinish(ScanThread) /\ UNCHANGED <<poolVars, genVars, sideVars, daemon>>
  \/ RequestStop /\ UNCHANGED <<poolVars, genVars, sideVars, daemon>>
  \/ NewEngine(TRUE) /\ UNCHANGED <<poolVars, genVars, sideVars, daemon>>

SpecEngine == InitEngine /\ [][NextEngine]_vars

\* the records an earlier run can have left in the output directory
EarlierRecords == {NoVersionsFile, AsFile("versions", Snapshot({V7151}, EngineStats))}

\* the runs of the program on one output directory, one engine after the
\* other, where open() of the record at startup may also raise: the first
\* engine is constructed on what an earlier run left
InitRuns ==
  /\ max_retries = 3
  /\ files = [t \in Targets |-> NoFile]
  /\ worker = [w \in Workers |-> NoTask]
  /\ call = [t \in Targets |-> IdleCall]
  /\ probe = [p \in Callers |-> IdleProbe]
  /\ firstReturned = <<>>
  /\ InitGenIdle
  /\ versions_file \in EarlierRecords
  /\ stats_file = NoStatsFile
  /\ \E readable \in BOOLEAN :
       found_versions = IF readable THEN _load_persisted(versions_file) ELSE {}
  /\ held = _load_persisted(versions_file)
  /\ version_exists_cache = <<>>
  /\ stats = EngineStats
  /\ thread = [th \in Threads |-> IdleThread]
  /\ stop_requested = FALSE
  /\ ncalls = 0
  /\ engine = 1
  /\ daemon = NoDaemon
  /\ InitSideIdle

NextRuns ==
  \/ NextEngine
  \/ NewEngine(FALSE) /\ UNCHANGED <<poolVars, genVars, sideVars, daemon>>

SpecRuns == InitRuns /\ [][NextRuns]_vars

\* a HeadlessController on an empty output directory
InitDaemon == InitEngine

\* start_daemon is called on a running controller, or on one whose earlier
\* loop thread (if any) has ended
NoLoopLeft == daemon.running \/ thread[DaemonThread].pc \in {"idle", "exit"}

NextDaemon ==
  \/ \E i \in Intervals, wrote \in BOOLEAN :
       /\ NoLoopLeft
       /\ StartDaemon(i, wrote) /\ UNCHANGED <<poolVars, genVars, sideVars>>
  \/ StopDaemon /\ UNCHANGED <<poolVars, genVars, sideVars>>
  \/ LoopTest /\ UNCHANGED <<poolVars, genVars, sideVars>>
  \/ \E r \in FeedResponses : LoopRss(r) /\ UNCHANGED <<poolVars, genVars, sideVars>>
  \/ \E answer \in BOOLEAN, d \in DaemonBatches :
       LoopProcess(answer, d) /\ UNCHANGED <<poolVars, genVars, sideVars>>
  \/ LoopSaveVersions /\ UNCHANGED <<poolVars, genVars, sideVars>>
  \/ LoopSaveStats /\ UNCHANGED <<poolVars, genVars, sideVars>>
  \/ \E ok \in BOOLEAN : SaveOpen(DaemonThread, ok) /\ UNCHANGED <<poolVars, genVars, sideVars, daemon>>
  \/ \E ok \in BOOLEAN : SaveDump(DaemonThread, ok) /\ UNCHANGED <<poolVars, genVars, sideVars, daemon>>
  \/ \E ok \in BOOLEAN : SaveClose(DaemonThread, ok) /\ UNCHANGED <<poolVars, genVars, sideVars, daemon>>
  \/ LoopSleep /\ UNCHANGED <<poolVars, genVars, sideVars>>
  \/ LoopSlept /\ UNCHANGED <<poolVars, genVars, sideVars>>
  \/ LoopWake /\ UNCHANGED <<poolVars, genVars, sideVars>>

SpecDaemon == InitDaemon /\ [][NextDaemon]_vars

\* the command-line processes of one output directory
InitControl == InitEngine

NextControl ==
  \/ \E p \in Pids, cmd \in Commands :
       Invoke(p, cmd) /\ UNCHANGED <<dlVars, probeVars, genVars, engVars, daemon, lockVars, full, loops>>
  \/ \E p \in Pids, wrote \in MarkerWrites :
       MainStart(p, wrote) /\ UNCHANGED <<dlVars, probeVars, genVars, engVars, daemon, lockVars, full, loops>>
  \/ \E p \in Pids :
       KeyboardInterrupt(p) /\ UNCHANGED <<dlVars, probeVars, genVars, engVars, daemon, lockVars, full, loops>>
  \/ \E p \in Pids :
       MainStop(p) /\ UNCHANGED <<dlVars, probeVars, genVars, engVars, daemon, lockVars, full, loops>>
  \/ \E p \in Pids :
       MainStatus(p) /\ UNCHANGED <<dlVars, probeVars, genVars, engVars, daemon, lockVars, full, loops>>
  \/ \E p \in Pids :
       CliLoop(p) /\ UNCHANGED <<dlVars, probeVars, genVars, engVars, daemon, lockVars, full, loops>>
  \/ \E p \in Pids :
       ProcessEnd(p) /\ UNCHANGED <<dlVars, probeVars, genVars, engVars, daemon, lockVars, full, loops>>
  \/ \E p \in Pids :
       Killed(p) /\ UNCHANGED <<dlVars, probeVars, genVars, engVars, daemon, lockVars, full, loops>>

SpecControl == InitControl /\ [][NextControl]_vars

\* the workers of one engine at the two locks
InitLock == InitEngine

\* what the lock-level actions leave alone
lockRest == <<poolVars, genVars, version_exists_cache, versions_file, stats_file, thread,
              stop_requested, ncalls, engine, held, daemon, ctlVars, full, loops>>

NextLock ==
  \/ \E w \in LockWorkers, key \in LockKeys, amount \in Amounts :
       CallIncrement(w, key, amount) /\ UNCHANGED lockRest
  \/ \E w \in LockWorkers : AcquireStats(w) /\ UNCHANGED lockRest
  \/ \E w \in LockWorkers : ReadStat(w) /\ UNCHANGED lockRest
  \/ \E w \in LockWorkers : WriteStat(w) /\ UNCHANGED lockRest
  \/ \E w \in LockWorkers, v \in EngineVersions : CallAdd(w, v) /\ UNCHANGED lockRest
  \/ \E w \in LockWorkers : AcquireLock(w) /\ UNCHANGED lockRest
  \/ \E w \in LockWorkers : AddVersion(w) /\ UNCHANGED lockRest

SpecLock == InitLock /\ [][NextLock]_vars

\* a HeadlessController on an empty output directory runs --full-scan
InitFullScan == InitEngine

\* what the steps of full_scan leave alone
fullRest == <<poolVars, genVars, daemon, ctlVars, lockVars, loops>>

NextFullScan ==
  \/ \E cands \in {EngineVersions} : FullScan(cands) /\ UNCHANGED fullRest
  \/ \E v \in EngineVersions, answer \in BOOLEAN : FullProbe(v, answer) /\ UNCHANGED fullRest
  \/ \E v \in EngineVersions : FullProcess(v) /\ UNCHANGED fullRest
  \/ \E v \in EngineVersions, t \in FullTargets : FullStartDownload(v, t) /\ UNCHANGED fullRest
  \/ \E v \in EngineVersions, t \in FullTargets, outcome \in FullOutcomes :
       FullEndDownload(v, t, outcome) /\ UNCHANGED fullRest
  \/ \E v \in EngineVersions : FullReturn(v) /\ UNCHANGED fullRest
  \/ \E which \in {"versions", "stats"} : FullSave(which) /\ UNCHANGED fullRest
  \/ \E ok \in BOOLEAN : SaveOpen(ScanThread, ok) /\ UNCHANGED <<poolVars, genVars, sideVars, daemon>>
  \/ \E ok \in BOOLEAN : SaveDump(ScanThread, ok) /\ UNCHANGED <<poolVars, genVars, sideVars, daemon>>
  \/ \E ok \in BOOLEAN : SaveClose(ScanThread, ok) /\ UNCHANGED <<poolVars, genVars, sideVars, daemon>>

SpecFullScan == InitFullScan /\ [][NextFullScan]_vars

\* a HeadlessController whose daemon is started and stopped by its owner
InitRestart == InitEngine

\* what start_daemon, stop_daemon and the loop phases leave alone
restartRest == <<dlVars, probeVars, genVars, engVars, ctlVars, lockVars, full>>

NextRestart ==
  \/ \E i \in Intervals, wrote \in BOOLEAN :
       JoinReturned /\ RestartStart(i, wrote) /\ UNCHANGED restartRest
  \/ JoinReturned /\ RestartStop /\ UNCHANGED restartRest
  \/ \E k \in 1..MaxLoops : RestartLoop(k) /\ UNCHANGED restartRest

SpecRestart == InitRestart /\ [][NextRestart]_vars

(***************************************************************************)
(* Properties of download_file                                             *)
(***************************************************************************)
\* the call on t took a step
Stepped(t) == call'[t] /= call[t]
\* the call on t returned in this step
Returned(t) == call[t].pc = "attempt" /\ call'[t].pc = "done"
\* the call on t issued a GET in this step
Fetched(t) == call'[t].fetches = call[t].fetches + 1
\* the call on t has returned failure after its last attempt failed otherwise than by 404
Exhausted(c) == c.pc = "done" /\ ~c.ret /\ c.fetches > 0 /\ c.lastStatus /= 404

\* C1: whenever download_file runs on a target whose file exists with
\* non-zero size it returns success in that step, issues no GET, leaves every
\* file as it is and adds exactly one to files_skipped and nothing else; as
\* the file stays, every further call does the same.
C1_SkipIfPresent ==
  [][\A t \in Targets :
       (call[t].pc = "attempt" /\ files[t].exists /\ Len(files[t].data) > 0 /\ Stepped(t))
       => /\ call'[t].pc = "done" /\ call'[t].ret
          /\ call'[t].fetches = call[t].fetches
          /\ files' = files
          /\ stats' = [stats EXCEPT !.files_skipped = @ + 1]]_vars

\* a second call in a row on a present file has been skipped without a GET
C1_Witness ==
  \E t \in Targets :
    /\ call[t].ncalls = 2 /\ call[t].pc = "done" /\ call[t].ret
    /\ call[t].fetches = 0 /\ call[t].retry_count = 0
    /\ stats.files_skipped = 2 /\ Len(files[t].data) = 1

\* C2 as claimed: a call that reports failure after all its attempts failed
\* (no 404) has made at most max_retries GETs, the first included.
C2_Original ==
  \A t \in Targets : Exhausted(call[t]) => call[t].fetches <= max_retries

\* C2 as amended: no call makes more than max_retries + 1 GETs (the first
\* attempt plus max_retries retries), and a call that reports failure after
\* all its attempts failed has made exactly max_retries + 1.
C2_RetryBudget ==
  \A t \in Targets :
    /\ call[t].fetches <= max_retries + 1
    /\ Exhausted(call[t]) => call[t].fetches = max_retries + 1

C2_Witness ==
  \E t \in Targets : max_retries = 2 /\ Exhausted(call[t]) /\ call[t].fetches = 3

\* C3: the waits of a call are 1, 2, 4, ...: the wait after the failed attempt
\* number k (from 0) is 2^k; attempt k > 0 starts only after k waits; and a
\* call that waits, like one that runs, holds exactly one thread of the pool,
\* the same one from its start to its return.
C3_Backoff ==
  /\ [](\A t \in Targets :
          LET c == call[t] IN
          /\ \A i \in 1..Len(c.waits) : c.waits[i] = 2 ^ (i - 1)
          /\ Len(c.waits) = c.retry_count + (IF c.pc = "sleep" THEN 1 ELSE 0)
          /\ c.fetches <= Len(c.waits) + 1
          /\ c.pc \in {"attempt", "sleep"}
               => Cardinality({w \in Workers : worker[w] = t}) = 1
          /\ c.pc \notin {"attempt", "sleep"} => \A w \in Workers : worker[w] /= t)
  /\ [][\A t \in Targets :
          (call[t].pc \in {"attempt", "sleep"} /\ call'[t].pc \in {"attempt", "sleep"})
          => \A w \in Workers : (worker'[w] = t) <=> (worker[w] = t)]_vars

C3_Witness ==
  \E t \in Targets, w \in Workers :
    call[t].pc = "sleep" /\ call[t].waits = <<1, 2, 4>> /\ worker[w] = t

\* C4: the attempt that is answered 404 returns failure in the same step,
\* with no wait appended, the retry count as it was, no counter changed and
\* no file touched.
C4_NotFound ==
  [][\A t \in Targets :
       (Fetched(t) /\ call'[t].lastStatus = 404)
       => /\ call'[t].pc = "done" /\ ~call'[t].ret
          /\ call'[t].waits = call[t].waits
          /\ call'[t].retry_count = call[t].retry_count
          /\ stats' = stats
          /\ files' = files]_vars

\* a retried attempt has been answered 404
C4_Witness ==
  \E t \in Targets :
    /\ call[t].pc = "done" /\ call[t].lastStatus = 404 /\ call[t].fetches = 2
    /\ call[t].retry_count = 1 /\ stats = ZeroStats

Outcome(t) ==
  IF ~Fetched(t) THEN "skipped"
  ELSE IF call'[t].lastStatus = 404 THEN "notfound"
  ELSE IF call'[t].ret THEN "downloaded"
  ELSE "exhausted"

\* the counters an outcome must leave
Accounted(t, outcome) ==
  CASE outcome = "skipped" -> [stats EXCEPT !.files_skipped = @ + 1]
    [] outcome = "downloaded" ->
         [stats EXCEPT !.files_downloaded = @ + 1,
                       !.bytes_downloaded = @ + Len(files'[t].data)]
    [] outcome = "exhausted" -> [stats EXCEPT !.files_failed = @ + 1]
    [] outcome = "notfound" -> stats

\* C6: a step in which a call returns changes the counters as its outcome
\* says (skipped, downloaded with the bytes written, exhausted, 404) and every
\* other step (a submit, a start, a failed attempt that will be retried, the
\* end of a wait) leaves them alone.
C6_Accounting ==
  [][\A t \in Targets :
       Stepped(t) =>
         IF Returned(t)
         THEN /\ call'[t].result = Outcome(t)
              /\ call'[t].ret = (Outcome(t) \in {"skipped", "downloaded"})
              /\ Outcome(t) = "downloaded" => call'[t].wrote = Len(files'[t].data)
              /\ stats' = Accounted(t, Outcome(t))
         ELSE stats' = stats]_vars

\* one call downloaded two chunks after a retry, another was exhausted
C6_Witness ==
  \E t, u \in Targets :
    /\ call[t].pc = "done" /\ call[t].result = "downloaded" /\ call[t].retry_count > 0
    /\ call[u].pc = "done" /\ call[u].result = "exhausted"
    /\ stats = [ZeroStats EXCEPT !.files_downloaded = 1, !.bytes_downloaded = 2,
                                 !.files_failed = 1]

(***************************************************************************)
(* Properties of check_version_exists                                      *)
(***************************************************************************)
\* a request of the call raised
Raised(c) == (c.heads = 1 /\ c.first = Exc) \/ (c.heads = 2 /\ c.second = Exc)

\* C7: a call that probed and met no exception returns true exactly when the
\* directory check answered 200, 301, 302 or 403 or, failing that, the
\* CHANGELOG check answered 200; the CHANGELOG check is made exactly when the
\* directory check was inconclusive, and at most once.
C7_Classification ==
  \A p \in Callers :
    LET c == probe[p] IN
    (c.pc = "done" /\ c.heads > 0 /\ ~Raised(c))
    => /\ c.heads \in {1, 2}
       /\ c.heads = 2 <=> c.first \notin {200, 301, 302, 403}
       /\ c.ret <=> (c.first \in {200, 301, 302, 403} \/ (c.heads = 2 /\ c.second = 200))

\* 6.51 answered 403 was found; 99.99 answered 404 twice was not, and is cached so
C7_Witness ==
  \E p, q \in Callers :
    /\ probe[p].pc = "done" /\ probe[p].v = "6.51" /\ probe[p].first = 403
    /\ probe[p].heads = 1 /\ probe[p].ret
    /\ probe[q].pc = "done" /\ probe[q].v = "99.99" /\ probe[q].first = 404
    /\ probe[q].heads = 2 /\ probe[q].second = 404 /\ ~probe[q].ret
    /\ version_exists_cache = [v \in Versions |-> v = "6.51"]

\* C8: once a request of a call has raised, the call makes no further request
\* and goes on to record false for its version and to return false.
C8_TransportFailure ==
  /\ [](\A p \in Callers :
          Raised(probe[p]) => probe[p].pc \in {"store", "done"} /\ ~probe[p].exists)
  /\ [][\A p \in Callers :
          (Raised(probe[p]) /\ probe[p].pc = "store" /\ probe'[p] /= probe[p])
          => /\ probe'[p].pc = "done"
             /\ probe'[p].heads = probe[p].heads
             /\ ~probe'[p].ret
             /\ CacheHit(version_exists_cache', probe[p].v)
             /\ ~version_exists_cache'[probe[p].v]]_vars

\* the CHANGELOG check raised after a 404 of the directory check
C8_Witness ==
  \E p \in Callers :
    /\ probe[p].pc = "done" /\ probe[p].heads = 2 /\ probe[p].first = 404
    /\ probe[p].second = Exc /\ ~probe[p].ret
    /\ CacheHit(version_exists_cache, probe[p].v)
    /\ ~version_exists_cache[probe[p].v]

\* C9 as claimed: a call that starts after a call for the same version has
\* returned returns what that call returned and makes no request.
C9_Original ==
  \A p \in Callers :
    (probe[p].pc = "done" /\ probe[p].hadPrior)
    => probe[p].ret = probe[p].prior /\ probe[p].heads = 0

\* C10 as claimed: a value the cache holds is never changed, and no request
\* is made for a version the cache holds a value for.
C10_Original ==
  [][\A v \in DOMAIN version_exists_cache :
       /\ version_exists_cache'[v] = version_exists_cache[v]
       /\ \A p \in Callers :
            probe'[p].heads > probe[p].heads => probe[p].v /= v]_vars

(***************************************************************************)
(* Properties of generate_all_version_numbers and build_download_urls      *)
(***************************************************************************)
\* the number of "." in a string
RECURSIVE Dots(_)
Dots(str) == IF str = <<>> THEN 0 ELSE (IF Head(str) = "." THEN 1 ELSE 0) + Dots(Tail(str))
\* a base identifier: major.minor and nothing else
IsBase(v) == Dots(v) = 1 /\ \A i \in 1..Len(v) : v[i] \in Range(DigitChar) \cup {"."}
\* the identifiers a base must come with: 20 patches, each with rc1..rc5 and beta1..beta5
PatchesOf(base) == {base \o <<".">> \o Str(p) : p \in 1..20}
PreReleasesOf(patch) ==
  {patch \o <<"r", "c">> \o Str(k) : k \in 1..5} \cup
  {patch \o <<"b", "e", "t", "a">> \o Str(k) : k \in 1..5}

\* C11: the generated list holds, for every base major.minor in it, the 20
\* patches of the base and the 5 rc and 5 beta identifiers of every patch, it
\* holds no identifier twice, and its length is 221 times the number of bases.
C11_GeneratorCount ==
  gen.pc = "done" =>
    LET emitted == Range(gen.versions)
        bases == {v \in emitted : IsBase(v)} IN
    /\ Cardinality(emitted) = Len(gen.versions)
    /\ Len(gen.versions) = 221 * Cardinality(bases)
    /\ \A base \in bases : \A patch \in PatchesOf(base) :
         patch \in emitted /\ PreReleasesOf(patch) \subseteq emitted

C11_Witness == gen.pc = "done" /\ Len(gen.versions) >= 3 * 221

\* the (major, minor) pairs the range start..end covers
CoveredPairs(start_major, start_minor, end_major, end_minor) ==
  {q \in (start_major..end_major) \X (0..99) :
     /\ q[1] = start_major => q[2] >= start_minor
     /\ q[1] = end_major => q[2] <= end_minor}
\* the place of a pair among the covered pairs in ascending (major, minor) order
PlaceOf(q, pairs) ==
  Cardinality({r \in pairs : r[1] < q[1] \/ (r[1] = q[1] /\ r[2] <= q[2])})

\* C12: the bases of the generated list are exactly the pairs with
\* start_major <= major <= end_major whose minor is at least start_minor on the
\* start major and at most end_minor on the end major (0..99 otherwise), in
\* ascending (major, minor) order; none when start_major > end_major.
C12_GeneratorRange ==
  gen.pc = "done" =>
    LET bases == SelectSeq(gen.versions, IsBase)
        pairs == CoveredPairs(gen.start_major, gen.start_minor,
                              gen.end_major, gen.end_minor) IN
    /\ Len(bases) = Cardinality(pairs)
    /\ \A q \in pairs : bases[PlaceOf(q, pairs)] = Str(q[1]) \o <<".">> \o Str(q[2])
    /\ gen.start_major > gen.end_major => gen.versions = <<>>

C12_Witness ==
  /\ gen.pc = "done"
  /\ gen.start_major + 2 = gen.end_major
  /\ gen.start_minor = 98
  /\ gen.end_minor = 1
  /\ Len(gen.versions) = 221 * (2 + 100 + 2)

\* the templates that name the architecture, and the others
QualifiedPatterns == {p \in Range(FILE_PATTERNS) : IsSubstring(ArchField, p)}
AgnosticPatterns == Range(FILE_PATTERNS) \ QualifiedPatterns
\* how many targets carry this architecture and this filename
TargetCount(urls, arch, filename) ==
  Cardinality({i \in 1..Len(urls) : urls[i].arch = arch /\ urls[i].filename = filename})

\* C13: the targets of a version are every architecture-qualified template once
\* per architecture (8) and every agnostic template once, under x86: with the
\* 4 qualified and 11 agnostic templates of the catalog that is 43 targets, no
\* two with the same (architecture, filename) and no two with the same URL.
C13_TargetExpansion ==
  target.pc = "done" =>
    LET urls == target.urls IN
    /\ Cardinality(QualifiedPatterns) = 4 /\ Cardinality(AgnosticPatterns) = 11
    /\ Len(ARCHITECTURES) = 8
    /\ Len(urls) = 43
    /\ \A p \in QualifiedPatterns : \A a \in Range(ARCHITECTURES) :
         TargetCount(urls, a, Format(p, a, target.version)) = 1
    /\ \A p \in AgnosticPatterns :
         /\ TargetCount(urls, X86, Format(p, X86, target.version)) = 1
         /\ \A a \in Range(ARCHITECTURES) \ {X86} :
              TargetCount(urls, a, Format(p, a, target.version)) = 0
    /\ Cardinality({<<urls[i].arch, urls[i].filename>> : i \in 1..Len(urls)}) = Len(urls)
    /\ Cardinality({urls[i].url : i \in 1..Len(urls)}) = Len(urls)
    /\ \A i \in 1..Len(urls) :
         urls[i].url = BASE_CDN_URL \o <<"/">> \o target.version \o <<"/">> \o urls[i].filename

C13_Witness ==
  /\ target.pc = "done"
  /\ \E i, j \in 1..Len(target.urls) :
       /\ target.urls[i].arch = X86 /\ target.urls[i].filename = <<"R", "E", "A", "D", "M", "E">>
       /\ target.urls[j].arch = <<"a", "r", "m", "6", "4">>
       /\ IsSubstring(<<"a", "r", "m", "6", "4", "-">> \o target.version \o <<".", "n", "p", "k">>,
                      target.urls[j].url)

(***************************************************************************)
(* Properties of the engine as a whole                                     *)
(***************************************************************************)
\* the version tokens the pattern extracts from a feed body
Extracted(body) == {body[i].token : i \in {k \in 1..Len(body) : body[k].routeros}}

\* C14: a scan_rss_for_versions call whose feed request is answered returns the
\* version tokens extracted from the body that are not in found_versions, each
\* of them once, and leaves found_versions as it was.
C14_RssDelta ==
  [][\A r \in FeedResponses :
       ncalls' /= ncalls /\ r.ok /\ CallScanRss(DaemonThread, r) =>
         LET new == thread'[DaemonThread].delta IN
         /\ Range(new) = Extracted(r.body) \ found_versions
         /\ Len(new) = Cardinality(Range(new))
         /\ found_versions' = found_versions]_vars

\* the feed mentions 7.16.2 and 7.15.1, found_versions holds 7.15.1
C14_Witness ==
  /\ found_versions = {V7151}
  /\ thread[DaemonThread].delta = <<V7162>>

(***************************************************************************)
(* Properties of the RSS tick of the headless daemon                       *)
(***************************************************************************)
\* C15: a feed check whose request fails yields an empty delta and leaves
\* found_versions and the counters as they were, the polling loop goes to its
\* sleep phase, and the loop thread ends only when the daemon was stopped.
C15_FeedFailure ==
  /\ [](thread[DaemonThread].pc = "exit" => ~daemon.running)
  /\ [][\A r \in FeedResponses :
          ~r.ok /\ LoopRss(r) =>
            /\ thread'[DaemonThread].delta = <<>>
            /\ found_versions' = found_versions
            /\ stats' = stats
            /\ thread'[DaemonThread].pc = "sleep"]_vars

\* the feed check of the first tick failed, the loop slept through the
\* interval and began its second tick
C15_Witness ==
  /\ daemon.failed
  /\ daemon.ticks = 2
  /\ daemon.slept = 0
  /\ daemon.running
  /\ thread[DaemonThread].pc = "rss"

\* a tick that had a delta is over: the loop sleeps, or has slept
TickDone ==
  /\ thread[DaemonThread].pc \in {"sleep", "sleeping", "while", "exit"}
  /\ thread[DaemonThread].delta /= <<>>

C17_Monotonic ==
  [][engine' = engine => found_versions \subseteq found_versions']_vars

\* both versions are in the set, a range scan has probed, and a save has failed
C17_Witness ==
  /\ found_versions = EngineVersions
  /\ stats.versions_tested > 0
  /\ \E th \in Threads : thread[th].log = "failed"

Mixed(file) == file.exists /\ ~file.whole /\ file.versions /= <<>>

\* C19 as stated, for two threads that save at the same time: neither
\* persistence file ever holds a mix of two writers' records.
C19_Original == ~Mixed(versions_file) /\ ~Mixed(stats_file)

\* the steps of a save
SavePcs == {"open", "dump", "close"}

\* C20: a save whose open, serialisation or write fails does not raise: it
\* returns to its caller with found_versions and the counters as they were;
\* and every save that gets to write serialises the whole of the current
\* found_versions (and counters), which is what the file holds when the save
\* succeeds on the file it emptied.
C20_FailureContained ==
  [][\A th \in Threads :
       /\ thread[th].pc \in SavePcs /\ thread'[th].log = "failed" =>
            /\ found_versions' = found_versions
            /\ stats' = stats
            /\ thread'[th].pc = thread[th].after
       /\ thread[th].pc = "dump" /\ thread'[th].pc = "close" =>
            /\ thread'[th].buf.versions = sorted(found_versions)
            /\ thread[th].which = "stats" => thread'[th].buf.stats = stats
       /\ thread[th].pc = "close" /\ thread'[th].log = "saved"
          /\ FileOf(thread[th].which).versions = <<>> =>
            IF thread[th].which = "stats"
            THEN stats_file' = thread[th].buf /\ stats_file'.whole
            ELSE versions_file' = thread[th].buf /\ versions_file'.whole]_vars

\* the save_found_versions of a range scan failed after it had emptied the
\* file, the scan went on, and its save_stats wrote the whole current state
C20_Witness ==
  /\ thread[ScanThread].pc = "idle"
  /\ thread[ScanThread].log = "saved"
  /\ versions_file.exists /\ ~versions_file.whole
  /\ found_versions /= {}
  /\ stats_file.whole
  /\ stats_file.from = found_versions
  /\ stats_file.stats = stats

\* a list in strictly ascending order (so without duplicates)
Ascending(list) == \A i, j \in 1..Len(list) : i < j => StrLess(list[i], list[j])

\* C21: whatever order the probes of a scan complete in, the versions list a
\* save serialises is in strictly ascending order (sorted, no duplicates) and
\* has exactly the elements of found_versions at that time; so has every whole
\* record in either file, of the found_versions it was made of.
C21_SortedRecord ==
  [][/\ \A th \in Threads :
          thread[th].pc = "dump" /\ thread'[th].pc = "close" =>
            /\ Ascending(thread'[th].buf.versions)
            /\ Range(thread'[th].buf.versions) = found_versions
     /\ versions_file'.whole =>
          Ascending(versions_file'.versions) /\
          Range(versions_file'.versions) = versions_file'.from
     /\ stats_file'.whole =>
          Ascending(stats_file'.versions) /\
          Range(stats_file'.versions) = stats_file'.from]_vars

\* the probes of a scan completed in descending order, and the record its
\* save_found_versions wrote is in ascending order
C21_Witness ==
  /\ thread[ScanThread].existing = <<V7162, V7151>>
  /\ thread[ScanThread].pc = "process"
  /\ thread[ScanThread].log = "saved"
  /\ versions_file.whole
  /\ versions_file.versions = <<V7151, V7162>>

(***************************************************************************)
(* Properties of start_daemon, stop_daemon and the sleep phase              *)
(***************************************************************************)
\* the step is a call of start_daemon, of stop_daemon
StartCalled == daemon'.calls = daemon.calls + 1 /\ daemon'.op = "start"
StopCalled == daemon'.calls = daemon.calls + 1 /\ daemon'.op = "stop"
\* what a refused call leaves as it was: the controller but for the record of
\* the call, the loop thread, the engine
Untouched ==
  /\ daemon' = [daemon EXCEPT !.calls = daemon'.calls, !.op = daemon'.op,
                              !.returned = daemon'.returned]
  /\ thread' = thread
  /\ <<found_versions, version_exists_cache, stats, versions_file, stats_file>>' =
       <<found_versions, version_exists_cache, stats, versions_file, stats_file>>

\* C22: start_daemon on a running controller returns False and changes
\* nothing: no loop thread is started, the PID marker, the stop event and the
\* running flag stay as they are.
C22_StartRefused ==
  [][StartCalled /\ daemon.running =>
       /\ daemon'.returned = "False"
       /\ daemon'.spawned = daemon.spawned
       /\ daemon'.pid_file = daemon.pid_file
       /\ daemon'.stop_event = daemon.stop_event
       /\ daemon'.running
       /\ Untouched]_vars

\* a start was refused while the one loop thread is in its sleep phase
C22_Witness ==
  /\ daemon.op = "start"
  /\ daemon.returned = "False"
  /\ daemon.running
  /\ daemon.spawned = 1
  /\ daemon.calls = 2
  /\ thread[DaemonThread].pc = "sleeping"

SleepPhase == {"sleep", "sleeping"}

\* C25: after a stop requested in the sleep phase the loop completes at most
\* the sleep increment it was in, runs no further feed check and goes nowhere
\* but to its end.
C25_StopLatency ==
  daemon.stop_pc \in SleepPhase =>
    /\ daemon.slept <= daemon.stop_slept + (IF daemon.stop_pc = "sleeping" THEN 1 ELSE 0)
    /\ daemon.ticks = daemon.stop_ticks
    /\ thread[DaemonThread].pc \in SleepPhase \cup {"while", "exit"}

\* stopped during the fourth sleep increment of a 12-increment interval, the
\* loop completed that increment and ended
C25_Witness ==
  /\ daemon.stop_pc = "sleeping"
  /\ daemon.stop_slept = 3
  /\ daemon.slept = 4
  /\ SleepChunks(daemon.interval) = 12
  /\ thread[DaemonThread].pc = "exit"

(***************************************************************************)
(* Properties of the command-line processes                                *)
(***************************************************************************)
\* the processes that hold a running daemon
RunningDaemons == {p \in Pids : Alive(p) /\ proc[p].running}

\* C23 as stated: of the processes that use one output directory at most one
\* is running a daemon at any time.
C23_Original == Cardinality(RunningDaemons) <= 1

\* the step is the call of get_daemon_status by the status command p
StatusCalled(p) ==
  proc[p].state = "main" /\ proc[p].cmd = "status" /\ proc'[p].state = "done"

StopCommand(p) ==
  proc[p].state = "main" /\ proc[p].cmd = "stop" /\ proc'[p].state = "done"

\* C27 as stated: the stop command leaves no PID marker and no process of the
\* output directory with its daemon running (so that the loop ends).
C27_Original ==
  [][\A p \in Pids : StopCommand(p) =>
       /\ ~marker'.exists
       /\ \A q \in Pids : Alive(q) => ~proc'[q].running]_vars

(***************************************************************************)
(* Properties of the counters and of the two locks                         *)
(***************************************************************************)
\* the workers inside the read-modify-write of a counter, inside the insert
InStats == {w \in LockWorkers : rmw[w].pc \in {"read", "write"}}
InLock == {w \in LockWorkers : rmw[w].pc = "add"}
AllIdle == \A w \in LockWorkers : rmw[w].pc = "idle"

\* C30 as stated: the inserts into found_versions and the read-modify-writes
\* of the counters are critical sections of one lock, so no two workers are
\* inside any of them at once.
C30_Original == Cardinality(InStats \cup InLock) <= 1

\* C30: the read-modify-writes of the counters are critical sections of
\* gui.stats_lock and the inserts into found_versions of engine.lock: at most
\* one worker is inside each, it is the holder of that lock, and when the
\* workers are done every counter equals what was counted and found_versions
\* holds every version inserted.
C30_TwoLocks ==
  /\ Cardinality(InStats) <= 1
  /\ Cardinality(InLock) <= 1
  /\ \A w \in InStats : locks.stats_lock = w
  /\ \A w \in InLock : locks.lock = w
  /\ AllIdle =>
       /\ \A k \in LockKeys : stats[k] = events.counted[k]
       /\ found_versions = events.inserted

\* two workers have each counted one download and inserted one version
C30_Witness ==
  /\ AllIdle
  /\ \A w \in LockWorkers : rmw[w].done = 2
  /\ stats.files_downloaded = 2
  /\ found_versions = EngineVersions

\* the numbers of targets of the versions
BatchSizes == {Len(d) : d \in DownloadBatches \cup DaemonBatches}

C29_CountersMonotone ==
  [][\A k \in StatKeys : stats'[k] >= stats[k]]_vars

\* a scan has tested two versions, found both, and its downloads have moved
\* the download, skip and failure counters
C29_Witness ==
  /\ stats.versions_tested = 2
  /\ stats.versions_found = 2
  /\ stats.files_downloaded = 2
  /\ stats.bytes_downloaded = 2
  /\ stats.files_skipped = 1
  /\ stats.files_failed = 1

(***************************************************************************)
(* Properties of the pools, the stop requests and the persisted records    *)
(***************************************************************************)
\* C31: in every entry point the number of download_file calls of one engine
\* that are in flight at the same time never exceeds download_workers.
C31_Original == InFlight(full) <= download_workers

\* process_version is entered by the loop of the range scan, or by the loop of
\* a daemon tick, in this step
ScanStartsVersion ==
  /\ thread[ScanThread].pc = "process"
  /\ thread[ScanThread].todo /= <<>>
  /\ thread'[ScanThread].pc = "process"
  /\ thread'[ScanThread].todo = Tail(thread[ScanThread].todo)
\* (a further version of the delta: one of them has been processed already)
TickStartsVersion ==
  /\ thread[DaemonThread].pc = "process"
  /\ thread[DaemonThread].todo /= <<>>
  /\ Len(thread[DaemonThread].todo) < Len(thread[DaemonThread].delta)
  /\ thread'[DaemonThread].pc = "process"
  /\ thread'[DaemonThread].todo = Tail(thread[DaemonThread].todo)

\* C32: once a stop has been requested no further version starts being
\* processed, neither by the range scan nor by a daemon tick that is working
\* through its delta.
C32_Original ==
  [][/\ stop_requested => ~ScanStartsVersion
     /\ daemon.stop_event => ~TickStartsVersion]_vars

\* the loop thread goes to sleep in this step
TickGoesToSleep ==
  /\ thread'[DaemonThread].pc = "sleep"
  /\ thread[DaemonThread].pc \notin {"sleep", "sleeping"}
\* the step is the end of the save_stats call of the tick
EndsSaveStats ==
  /\ thread[DaemonThread].pc \in SavePcs
  /\ thread[DaemonThread].which = "stats"

\* C33 as stated: every iteration of the polling loop, also one whose delta is
\* empty, has rewritten both records when it goes to sleep.
C33_Original == [][TickGoesToSleep => EndsSaveStats]_vars

\* C33, amended: an iteration runs the feed check; when the delta is not
\* empty it works through every version of it, then calls save_found_versions,
\* then save_stats, and only then sleeps; when the delta is empty it goes to
\* sleep from the feed check and saves nothing.
C33_TickPersists ==
  [][LET t == thread[DaemonThread]
         u == thread'[DaemonThread]
     IN /\ t.pc = "rss" /\ u.pc /= "rss" =>
             u.pc = (IF u.delta = <<>> THEN "sleep" ELSE "process")
        /\ t.pc = "process" /\ u.pc /= "process" =>
             /\ t.todo = <<>>
             /\ u.pc = "open" /\ u.which = "versions" /\ u.after = "save_stats"
        /\ u.pc = "save_stats" /\ t.pc /= "save_stats" =>
             t.pc \in SavePcs /\ t.which = "versions"
        /\ t.pc = "save_stats" /\ u.pc /= "save_stats" =>
             u.pc = "open" /\ u.which = "stats" /\ u.after = "sleep"
        /\ TickGoesToSleep =>
             \/ t.pc = "rss" /\ u.delta = <<>>
                /\ versions_file' = versions_file /\ stats_file' = stats_file
             \/ EndsSaveStats /\ u.delta /= <<>>]_vars

\* the second tick found a new version, processed it, saved both records and
\* sleeps; the first had found one too
C33_Witness ==
  /\ thread[DaemonThread].pc = "sleep"
  /\ daemon.ticks = 2
  /\ thread[DaemonThread].delta /= <<>>
  /\ thread[DaemonThread].log = "saved"
  /\ found_versions = EngineVersions
  /\ versions_file.whole /\ versions_file.from = found_versions
  /\ stats_file.whole /\ stats_file.from = found_versions /\ stats_file.stats = stats

\* C34: when download_file returns success, the file is the complete body this
\* call fetched, or it was there before the call began (the skip of the first
\* attempt); a success is never based on what an earlier failed attempt of
\* the same call left at the destination.
C34_Original ==
  \A t \in Targets :
    call[t].pc = "done" /\ call[t].ret =>
      \/ call[t].result = "downloaded" /\ files[t].exists
         /\ Len(files[t].data) = call[t].wrote
      \/ call[t].result = "skipped" /\ call[t].fetches = 0

\* the frames of download_file on the stack of the call: the first and one
\* for every retry (line 188)
Frames(c) == c.retry_count + 1
\* the seconds the call has slept, or is sleeping, in all
RECURSIVE SumWaits(_)
SumWaits(waits) == IF waits = <<>> THEN 0 ELSE Head(waits) + SumWaits(Tail(waits))
\* what is left to a call: the retries it may still make, and its step
Variant(c) ==
  2 * (max_retries - c.retry_count) + (IF c.pc = "attempt" THEN 1 ELSE 0) + 1

\* C35: whatever the attempts of a download_file call are answered with, the
\* call is never deeper than max_retries + 1 frames and has never slept more
\* than 2^max_retries - 1 seconds in all; it can always take its next step,
\* every step either returns, with success or with failure, or brings it
\* nearer to its return (the variant falls and stays positive), so that the
\* call returns after 2 * max_retries + 2 steps at most.
C35_Termination ==
  /\ [](\A t \in Targets :
          /\ call[t].pc \in {"attempt", "sleep", "done"} =>
               /\ Frames(call[t]) <= max_retries + 1
               /\ SumWaits(call[t].waits) <= 2 ^ max_retries - 1
          /\ call[t].pc \in {"attempt", "sleep"} =>
               /\ Variant(call[t]) \in 1..(2 * max_retries + 2)
               /\ ENABLED (\/ DownloadAttempt(t) /\ UNCHANGED <<probeVars, restVars>>
                           \/ RetryAfterBackoff(t) /\ UNCHANGED <<probeVars, restVars>>)
          /\ call[t].pc = "done" =>
               /\ call[t].result \in {"downloaded", "skipped", "notfound", "exhausted"}
               /\ call[t].ret <=> call[t].result \in {"downloaded", "skipped"})
  /\ [][\A t \in Targets :
          call[t].pc \in {"attempt", "sleep"} /\ Stepped(t) =>
            \/ call'[t].pc = "done"
            \/ call'[t].pc \in {"attempt", "sleep"}
               /\ Variant(call'[t]) < Variant(call[t])]_vars

\* a call has returned failure from its deepest frame after sleeping
\* 1 + 2 + 4 seconds
C35_Witness ==
  \E t \in Targets :
    /\ max_retries = 3
    /\ call[t].pc = "done" /\ ~call[t].ret
    /\ Frames(call[t]) = 4
    /\ SumWaits(call[t].waits) = 7

\* C36: whatever start_daemon and stop_daemon calls are made on a controller,
\* at most one of its polling-loop threads is executing at any time, and a
\* loop whose stop was requested never begins another tick.
C36_Original ==
  /\ [](Cardinality({k \in 1..Len(loops) : Executing(loops[k])}) <= 1)
  /\ [][\A k \in 1..Len(loops) :
          loops[k].stopped => loops'[k].ticks = loops[k].ticks]_vars

\* process p runs a polling loop that was not asked to stop
LoopRunning(p) ==
  /\ Alive(p)
  /\ proc[p].running
  /\ proc[p].loop \in {"while", "tick", "sleep"}
\* the controller of process p has completed a stop_daemon that was not refused
StopCompleted(p) ==
  /\ proc[p].state \in {"done", "exited"}
  /\ proc[p].returned = "True"
  /\ ~proc[p].running /\ proc[p].stop_event

\* C37: whenever a polling loop runs for the output directory the PID marker
\* exists and holds the id of the process that runs it, and once a controller
\* has completed stop_daemon no marker it wrote remains; also when the marker
\* could not be written and when other controllers start or stop.
C37_Original ==
  \A p \in Pids :
    /\ LoopRunning(p) => marker = MarkerOf(p)
    /\ StopCompleted(p) => marker /= MarkerOf(p)

\* the engine has recorded that v does not exist
RecordedAbsent(v) == CacheHit(version_exists_cache, v) /\ ~version_exists_cache[v]
\* the daemon tick calls process_version on v in this step
TickProcesses(v) ==
  /\ thread[DaemonThread].pc = "process"
  /\ thread[DaemonThread].todo /= <<>>
  /\ Head(thread[DaemonThread].todo) = v
  /\ thread'[DaemonThread].todo = Tail(thread[DaemonThread].todo)

C39_Original ==
  [][\A th \in Threads :
       thread[th].pc = "dump" /\ thread'[th].pc = "close" /\ thread[th].which = "versions"
         => held \subseteq Range(thread'[th].buf.versions)]_vars

\* C40: found_versions holds only confirmed versions: in every reachable state
\* of an engine each member was loaded from the found-versions record at
\* startup or has the value true in version_exists_cache
C40_Original ==
  \A v \in found_versions :
    v \in held \/ (CacheHit(version_exists_cache, v) /\ version_exists_cache[v])

==============================================================================
